---- MODULE Spec2Model ----
(***************************************************************************)
(* Consensus step execution, round by round: the event loop of            *)
(* consensus/src/execution_ctx.rs, the common is_valid gate of            *)
(* consensus/src/msg_handler.rs and the Validation handler of             *)
(* consensus/src/validation/handler.rs, together with the collaborators   *)
(* they call (aggregator, step-votes registry, future queue, iteration    *)
(* context, Ratification and Proposal handlers, round driver).            *)
(***************************************************************************)
EXTENDS Integers, Sequences, FiniteSets, TLC

\* ------------------------------------------------------------------ bounds
\* Highest iteration number the round driver runs before the model stops.
MaxIter == 1
\* Number of receives on the inbound channel (messages and receive errors)
\* during the round.
MaxMsgs == 3
\* Messages delivered in a run of FewSpec, RoundsSpec and LateSpec.
MaxFew == 2
\* Highest voting power of a member of a drawn committee.
MaxPower == 3
\* Number of consecutive rounds the node runs before the model stops.
MaxRounds == 2

\* ------------------------------------------------------- program constants
\* RoundUpdate.round of the first round the model runs, and of the last.
FirstRound == 5
LastRound == FirstRound + MaxRounds - 1
\* The RoundUpdate of the round being run (its round number; the node's key
\* and the previous-block hash are LocalPk and TipHash in every round).
VARIABLE round_update
CurRound == round_update.round
\* future_queue_cap_per_step
FutureCap == 2
\* timeout_max
TimeoutMax == 60

StepNames == {"Proposal", "Validation", "Ratification"}
\* Base timeouts per step-name (proposal/validation/ratification_timeout_base).
BaseTimeout == [Proposal |-> 20, Validation |-> 40, Ratification |-> 40]

\* Step ordinal of a step-name and the flattened step-id (StepName::to_step).
StepOrd == [Proposal |-> 0, Validation |-> 1, Ratification |-> 2]
to_step(name, iteration) == iteration * 3 + StepOrd[name]
step_name_of(sid) ==
    IF sid % 3 = 0 THEN "Proposal"
    ELSE IF sid % 3 = 1 THEN "Validation" ELSE "Ratification"
from_step(sid) == sid \div 3

Iters == 0 .. MaxIter
Sids == 0 .. (3 * (MaxIter + 1) - 1)

\* Hashes: the all-zero hash (nil vote) and a candidate hash.
ZeroHash == "zero"
Hashes == {ZeroHash, "A"}
\* Previous-block hash of the round (ru.hash()) and a diverging one.
TipHash == "tip"

Signers == {"a", "b"}
\* The local node's BLS public key (round_update.pubkey_bls).
LocalPk == "a"

\* ---------------------------------------------------------------- committee
\* A committee maps each member to its voting power (its number of draws).
\* The committees sortition produces for this round: in iteration 0 the
\* Validation and Ratification committees are a (5 draws) and b (1 draw);
\* from iteration 1 on the Validation committee is a (4), b (1), c (1).
\* The generator a is the whole Proposal committee.
generator_committee == [s \in {"a"} |-> 1]
heavy_committee == [s \in {"a", "b"} |-> IF s = "a" THEN 5 ELSE 1]
wide_committee == [s \in {"a", "b"} |-> IF s = "a" THEN 4 ELSE 1]
sortition(sid) ==
    IF step_name_of(sid) = "Proposal" THEN generator_committee
    ELSE IF step_name_of(sid) = "Validation" /\ from_step(sid) > 0
    THEN wide_committee
    ELSE heavy_committee

RECURSIVE SumPower(_, _)
SumPower(committee, S) ==
    IF S = {} THEN 0
    ELSE LET s == CHOOSE x \in S : TRUE
         IN (IF s \in DOMAIN committee THEN committee[s] ELSE 0)
            + SumPower(committee, S \ {s})

is_member(committee, pk) == pk \in DOMAIN committee
power(committee, pk) == IF pk \in DOMAIN committee THEN committee[pk] ELSE 0
total_power(committee) == SumPower(committee, DOMAIN committee)
\* ceil(2 * total / 3) + 1
\* quorum_threshold that rounds two thirds of the total power down.
quorum_threshold_floor(committee) == ((2 * total_power(committee)) \div 3) + 1

quorum_threshold(committee) == ((2 * total_power(committee) + 2) \div 3) + 1

\* RoundCommittees: the round's cache of committees, a map from step-id to
\* committee.
EmptyCommittees == [sid \in {} |-> generator_committee]
\* RoundCommittees::get_committee(step)
get_committee(round_committees, sid) == round_committees[sid]

\* save_committee that forgets the committees saved before.
save_committee_forgets(round_committees, sid, committee) ==
    [s \in {sid} |-> committee]

\* ExecutionCtx::save_committee: committees.insert(step, committee)
save_committee(round_committees, sid, committee) ==
    [s \in DOMAIN round_committees \cup {sid} |->
        IF s = sid THEN committee ELSE round_committees[s]]

\* ----------------------------------------------------------------- messages
\* Inbound wire message: header fields, the payload kind (topic), whether the
\* BLS signature over the payload verifies.
Msg(r, it, st, pk, tp, h, tip, sig) ==
    [round |-> r, iteration |-> it, step |-> st, signer |-> pk, topic |-> tp,
     hash |-> h, prev_block_hash |-> tip, sig |-> sig]
Vote(it, tp, pk, h) == Msg(CurRound, it, tp, pk, tp, h, TipHash, TRUE)
get_step(msg) == to_step(msg.step, msg.iteration)

\* The votes of iteration 0 (present in their own step, future before it,
\* past for the rest of the round), the generator's candidate, and a vote
\* of a and of b for the last iteration (future until it is reached).
VoteMsgs ==
    {Vote(0, tp, pk, h) : tp \in {"Validation", "Ratification"},
                          pk \in Signers, h \in Hashes}
    \cup {Vote(MaxIter, "Validation", pk, "A") : pk \in {"a", "b"}}
CandidateMsgs ==
    {Msg(CurRound, 0, "Proposal", "a", "Candidate", "A", TipHash, TRUE)}
OddMsgs ==
    { Msg(CurRound, 0, "Validation", "a", "Validation", "A", "fork", TRUE),
      Msg(CurRound, 0, "Validation", "b", "Validation", "A", TipHash, FALSE),
      Msg(CurRound, 0, "Validation", "a", "Empty", ZeroHash, TipHash, TRUE),
      Msg(CurRound, 0, "Validation", "a", "Quorum", "A", TipHash, TRUE),
      Msg(CurRound, 0, "Validation", "none", "Validation", "A", TipHash, TRUE),
      Msg(CurRound, 0, "Validation", "c", "Validation", "A", TipHash, TRUE),
      Msg(CurRound - 1, 0, "Validation", "a", "Validation", "A", TipHash, TRUE),
      Msg(CurRound + 1, 0, "Validation", "a", "Validation", "A", TipHash, TRUE),
      Msg(CurRound + 2, 0, "Validation", "a", "Validation", "A", TipHash, TRUE) }
InboundMsgs == VoteMsgs \cup CandidateMsgs \cup OddMsgs

\* StepVotes: aggregated signature (how many times each signer's signature
\* was aggregated) and the bitset of committee members present.
EmptySig == [s \in Signers |-> 0]
DefaultSV == [bitset |-> {}, signature |-> EmptySig]

\* Messages produced by handlers (step outputs, Quorum messages).
OutMsg(tp, it, h, q, vsv, rsv) ==
    [topic |-> tp, iteration |-> it, hash |-> h, quorum |-> q,
     validation |-> vsv, ratification |-> rsv]
EmptyMsg == OutMsg("Empty", 0, ZeroHash, "NoQuorum", DefaultSV, DefaultSV)

\* HandleMsgOutput
Pending == [kind |-> "Pending", msg |-> EmptyMsg]
Ready(m) == [kind |-> "Ready", msg |-> m]
ReadyWithTimeoutIncrease(m) ==
    [kind |-> "ReadyWithTimeoutIncrease", msg |-> m]
HandlerErr(e) == [kind |-> e, msg |-> EmptyMsg]

\* --------------------------------------------------------------- aggregator
\* One tally per (step-id, block-hash): aggregated signature, signer bitset,
\* accumulated power.
AggrKeys == {sid \in Sids : step_name_of(sid) # "Proposal"} \X Hashes
EmptyEntry == [bitset |-> {}, signature |-> EmptySig, power |-> 0]
EmptyAggr == [k \in AggrKeys |-> EmptyEntry]
NoVote(ag) ==
    [some |-> FALSE, hash |-> ZeroHash, sv |-> DefaultSV,
     quorum_reached |-> FALSE, aggr |-> ag]

\* collect_vote without the duplicate-signer test.
collect_vote_no_dedup(ag, committee, msg) ==
    LET key == <<get_step(msg), msg.hash>>
        e == ag[key]
        pk == msg.signer
    IN IF ~is_member(committee, pk)
       THEN NoVote(ag)
       ELSE LET e2 == [bitset |-> e.bitset \cup {pk},
                       signature |-> [e.signature EXCEPT ![pk] = @ + 1],
                       power |-> e.power + power(committee, pk)]
            IN [some |-> TRUE, hash |-> msg.hash,
                sv |-> [bitset |-> e2.bitset, signature |-> e2.signature],
                quorum_reached |-> e2.power >= quorum_threshold(committee),
                aggr |-> [ag EXCEPT ![key] = e2]]

\* collect_vote keeping one tally per hash for all iterations of a phase.
collect_vote_one_tally(ag, committee, msg) ==
    LET key == <<get_step(msg) % 3, msg.hash>>
        e == ag[key]
        pk == msg.signer
    IN IF ~is_member(committee, pk) \/ pk \in e.bitset
       THEN NoVote(ag)
       ELSE LET e2 == [bitset |-> e.bitset \cup {pk},
                       signature |-> [e.signature EXCEPT ![pk] = @ + 1],
                       power |-> e.power + power(committee, pk)]
            IN [some |-> TRUE, hash |-> msg.hash,
                sv |-> [bitset |-> e2.bitset, signature |-> e2.signature],
                quorum_reached |-> e2.power >= quorum_threshold(committee),
                aggr |-> [ag EXCEPT ![key] = e2]]

\* Aggregator::collect_vote(committee, header, signature)
collect_vote(ag, committee, msg) ==
    LET key == <<get_step(msg), msg.hash>>
        e == ag[key]
        pk == msg.signer
    IN IF ~is_member(committee, pk) \/ pk \in e.bitset
       THEN NoVote(ag)
       ELSE LET e2 == [bitset |-> e.bitset \cup {pk},
                       signature |-> [e.signature EXCEPT ![pk] = @ + 1],
                       power |-> e.power + power(committee, pk)]
            IN [some |-> TRUE, hash |-> msg.hash,
                sv |-> [bitset |-> e2.bitset, signature |-> e2.signature],
                quorum_reached |-> e2.power >= quorum_threshold(committee),
                aggr |-> [ag EXCEPT ![key] = e2]]

\* ------------------------------------------------------ step-votes registry
\* Per (iteration, hash): the Validation and Ratification StepVotes recorded,
\* whether each was recorded with quorum, whether the Quorum message was
\* already returned.
RegKeys == Iters \X Hashes
EmptyCert ==
    [has_validation |-> FALSE, validation |-> DefaultSV,
     quorum_reached_validation |-> FALSE,
     has_ratification |-> FALSE, ratification |-> DefaultSV,
     quorum_reached_ratification |-> FALSE,
     returned |-> FALSE]
EmptyReg == [k \in RegKeys |-> EmptyCert]

add_sv(cert, sv, svt, quorum_reached) ==
    IF svt = "Validation"
    THEN [cert EXCEPT !.has_validation = TRUE, !.validation = sv,
                      !.quorum_reached_validation = quorum_reached]
    ELSE [cert EXCEPT !.has_ratification = TRUE, !.ratification = sv,
                      !.quorum_reached_ratification = quorum_reached]

\* is_ready without the two quorum flags.
is_ready_any(cert, hash) ==
    cert.has_validation /\ cert.has_ratification /\ hash # ZeroHash

is_ready(cert, hash) ==
    /\ cert.has_validation /\ cert.has_ratification
    /\ cert.quorum_reached_validation /\ cert.quorum_reached_ratification
    /\ hash # ZeroHash

\* add_step_votes that keeps one certificate per hash for the whole round.
add_step_votes_per_hash(reg, step, hash, sv, svt, quorum_reached) ==
    LET key == <<0, hash>>
        cert == add_sv(reg[key], sv, svt, quorum_reached)
        emit == is_ready(cert, hash) /\ ~cert.returned
    IN [some |-> emit,
        msg |-> IF emit
                THEN OutMsg("Quorum", from_step(step), hash, "ValidQuorum",
                            cert.validation, cert.ratification)
                ELSE EmptyMsg,
        reg |-> [reg EXCEPT ![key] =
                    IF emit THEN [cert EXCEPT !.returned = TRUE] ELSE cert]]

\* add_step_votes(step, hash, sv, svt, quorum_reached) -> Option<Message>
add_step_votes(reg, step, hash, sv, svt, quorum_reached) ==
    LET key == <<from_step(step), hash>>
        cert == add_sv(reg[key], sv, svt, quorum_reached)
        emit == is_ready(cert, hash) /\ ~cert.returned
    IN [some |-> emit,
        msg |-> IF emit
                THEN OutMsg("Quorum", from_step(step), hash, "ValidQuorum",
                            cert.validation, cert.ratification)
                ELSE EmptyMsg,
        reg |-> [reg EXCEPT ![key] =
                    IF emit THEN [cert EXCEPT !.returned = TRUE] ELSE cert]]

\* ------------------------------------------------------- future-message queue
\* The rounds a parked message can carry: is_valid parks the messages of
\* every round after the current one, and the inbound messages reach two
\* rounds ahead.
QueueRounds == FirstRound .. (LastRound + 2)
QueueKeys == QueueRounds \X Sids
EmptyQueue == [k \in QueueKeys |-> <<>>]

\* put_event without the per-key cap.
put_event_unbounded(q, round, step, msg) ==
    [q EXCEPT ![<<round, step>>] = Append(@, msg)]

\* Queue::put_event(round, step, msg): append; drop the oldest over the cap.
put_event(q, round, step, msg) ==
    LET key == <<round, step>>
        l == Append(q[key], msg)
    IN [q EXCEPT ![key] = IF Len(l) > FutureCap THEN Tail(l) ELSE l]

\* drain_events that returns the messages of the key and leaves them stored.
drain_events_keep(q, round, step) ==
    [msgs |-> q[<<round, step>>], queue |-> q]

\* Queue::drain_events(round, step): remove and return.
drain_events(q, round, step) ==
    [msgs |-> q[<<round, step>>], queue |-> [q EXCEPT ![<<round, step>>] = <<>>]]

\* clear_round that removes nothing.
clear_round_noop(q, round) == q

\* Queue::clear_round(round)
clear_round(q, round) ==
    [k \in QueueKeys |-> IF k[1] = round THEN <<>> ELSE q[k]]

\* ------------------------------------------------------------ message status
\* Message::compare(round, iteration, step): lexicographic.
compare(msg, round, iteration, step) ==
    IF msg.round # round
    THEN (IF msg.round < round THEN "Past" ELSE "Future")
    ELSE IF msg.iteration # iteration
    THEN (IF msg.iteration < iteration THEN "Past" ELSE "Future")
    ELSE IF StepOrd[msg.step] # StepOrd[step]
    THEN (IF StepOrd[msg.step] < StepOrd[step] THEN "Past" ELSE "Future")
    ELSE "Present"

\* ----------------------------------------------------------------- verify
\* ValidationHandler::verify
validation_verify(msg) ==
    IF msg.topic \notin {"Validation", "Empty"} THEN "InvalidMsgType"
    ELSE IF ~msg.sig THEN "InvalidSignature"
    ELSE "Ok"

\* RatificationHandler::verify
ratification_verify(msg) ==
    IF msg.topic # "Ratification" THEN "InvalidMsgType"
    ELSE IF ~msg.sig THEN "InvalidSignature"
    ELSE "Ok"

\* ProposalHandler::verify
proposal_verify(msg) ==
    IF msg.topic # "Candidate" THEN "InvalidMsgType"
    ELSE IF ~msg.sig THEN "InvalidSignature"
    ELSE "Ok"

verify(phase, msg) ==
    IF phase = "Validation" THEN validation_verify(msg)
    ELSE IF phase = "Ratification" THEN ratification_verify(msg)
    ELSE proposal_verify(msg)

\* verify_stateless of the three phases: the payload's signature check.
verify_stateless(msg) == IF msg.sig THEN "Ok" ELSE "InvalidSignature"

\* is_valid without the committee-membership check of present messages.
is_valid_no_member_check(phase, msg, iteration, step, committee, round_committees) ==
    IF msg.signer = "none" THEN "InvalidMsgType"
    ELSE LET status == compare(msg, CurRound, iteration, step)
         IN IF status = "Past" THEN "PastEvent"
            ELSE IF status = "Present"
            THEN (IF msg.prev_block_hash # TipHash THEN "InvalidPrevBlockHash"
                  ELSE verify(phase, msg))
            ELSE IF msg.round # CurRound THEN "FutureEvent"
            ELSE IF msg.prev_block_hash # TipHash THEN "InvalidPrevBlockHash"
            ELSE IF get_step(msg) \notin DOMAIN round_committees
            THEN "FutureEvent"
            ELSE IF ~is_member(get_committee(round_committees, get_step(msg)),
                                msg.signer)
            THEN "NotCommitteeMember"
            ELSE IF msg.topic \in {"Ratification", "Validation", "Candidate"}
            THEN (IF verify_stateless(msg) = "Ok" THEN "FutureEvent"
                  ELSE verify_stateless(msg))
            ELSE IF msg.topic \in {"Quorum", "Block"} THEN "FutureEvent"
            ELSE "InvalidMsgType"

\* is_valid that checks the membership of a present message's signer before
\* its previous-block hash.
is_valid_member_first(phase, msg, iteration, step, committee, round_committees) ==
    IF /\ msg.signer # "none"
       /\ compare(msg, CurRound, iteration, step) = "Present"
       /\ ~is_member(committee, msg.signer)
    THEN "NotCommitteeMember"
    ELSE is_valid_no_member_check(phase, msg, iteration, step, committee,
                                  round_committees)

\* is_valid that skips the pre-verification of future messages.
is_valid_park_unverified(phase, msg, iteration, step, committee, round_committees) ==
    IF msg.signer = "none" THEN "InvalidMsgType"
    ELSE LET status == compare(msg, CurRound, iteration, step)
         IN IF status = "Past" THEN "PastEvent"
            ELSE IF status = "Present"
            THEN (IF msg.prev_block_hash # TipHash THEN "InvalidPrevBlockHash"
                  ELSE IF ~is_member(committee, msg.signer)
                  THEN "NotCommitteeMember"
                  ELSE verify(phase, msg))
            ELSE IF msg.round # CurRound THEN "FutureEvent"
            ELSE IF msg.prev_block_hash # TipHash THEN "InvalidPrevBlockHash"
            ELSE "FutureEvent"

\* is_valid that pre-verifies the future messages of every round.
is_valid_preverify_all_rounds(phase, msg, iteration, step, committee, round_committees) ==
    IF msg.signer = "none" THEN "InvalidMsgType"
    ELSE LET status == compare(msg, CurRound, iteration, step)
         IN IF status = "Past" THEN "PastEvent"
            ELSE IF status = "Present"
            THEN (IF msg.prev_block_hash # TipHash THEN "InvalidPrevBlockHash"
                  ELSE IF ~is_member(committee, msg.signer)
                  THEN "NotCommitteeMember"
                  ELSE verify(phase, msg))
            ELSE IF msg.prev_block_hash # TipHash THEN "InvalidPrevBlockHash"
            ELSE IF get_step(msg) \notin DOMAIN round_committees
            THEN "FutureEvent"
            ELSE IF ~is_member(get_committee(round_committees, get_step(msg)),
                                msg.signer)
            THEN "NotCommitteeMember"
            ELSE IF msg.topic \in {"Ratification", "Validation", "Candidate"}
            THEN (IF verify_stateless(msg) = "Ok" THEN "FutureEvent"
                  ELSE verify_stateless(msg))
            ELSE IF msg.topic \in {"Quorum", "Block"} THEN "FutureEvent"
            ELSE "InvalidMsgType"

\* is_valid that checks the previous-block hash before the status.
is_valid_tip_first(phase, msg, iteration, step, committee, round_committees) ==
    IF msg.signer = "none" THEN "InvalidMsgType"
    ELSE IF msg.round = CurRound /\ msg.prev_block_hash # TipHash
    THEN "InvalidPrevBlockHash"
    ELSE is_valid_no_member_check(phase, msg, iteration, step, committee,
                                  round_committees)

\* MsgHandler::is_valid.  round_committees is the round's cache of
\* committees, by step-id.
is_valid(phase, msg, iteration, step, committee, round_committees) ==
    IF msg.signer = "none" THEN "InvalidMsgType"
    ELSE LET status == compare(msg, CurRound, iteration, step)
         IN IF status = "Past" THEN "PastEvent"
            ELSE IF status = "Present"
            THEN (IF msg.prev_block_hash # TipHash THEN "InvalidPrevBlockHash"
                  ELSE IF ~is_member(committee, msg.signer)
                  THEN "NotCommitteeMember"
                  ELSE verify(phase, msg))
            ELSE IF msg.round # CurRound THEN "FutureEvent"
            ELSE IF msg.prev_block_hash # TipHash THEN "InvalidPrevBlockHash"
            ELSE IF get_step(msg) \notin DOMAIN round_committees
            THEN "FutureEvent"
            ELSE IF ~is_member(get_committee(round_committees, get_step(msg)),
                                msg.signer)
            THEN "NotCommitteeMember"
            ELSE IF msg.topic \in {"Ratification", "Validation", "Candidate"}
            THEN (IF verify_stateless(msg) = "Ok" THEN "FutureEvent"
                  ELSE verify_stateless(msg))
            ELSE IF msg.topic \in {"Quorum", "Block"} THEN "FutureEvent"
            ELSE "InvalidMsgType"

\* ------------------------------------------------------------ handler state
\* The mutable state a handler run works on, as one record: the two phase
\* aggregators, the Validation handler's curr_step, the registry, the future
\* queue, the timeout table, the quorum channel, the messages published on
\* the outbound channel by this run, and the calls made by this run.
Log(st, e) == [st EXCEPT !.log = Append(@, e)]

\* outbound.send(msg): a failed send is logged and otherwise ignored.  The
\* network layer consumes what is published; the publication is kept as an
\* event of the run.
outbound_send(st, msg, ok) ==
    IF ok THEN Log(st, "send") ELSE Log(st, "send_failed")

\* IterationCtx::on_timeout_event: double the step-name's timeout up to the cap.
on_timeout_event(st, step) ==
    [st EXCEPT !.timeouts[step] =
        IF 2 * @ > TimeoutMax THEN TimeoutMax ELSE 2 * @]

\* ------------------------------------------------------- Validation handler
ValidationResult(sv, hash, quorum) ==
    OutMsg("ValidationResult", 0, hash, quorum, sv, DefaultSV)

final_result(sv, hash, quorum) == Ready(ValidationResult(sv, hash, quorum))
final_result_with_timeout(sv, hash, quorum) ==
    ReadyWithTimeoutIncrease(ValidationResult(sv, hash, quorum))

\* ValidationHandler::reset(curr_step)
validation_reset(curr_step) == curr_step

\* collect recording every vote as having reached quorum.
validation_collect_record_quorum(st, msg, step, committee) ==
    IF step # st.v_curr_step THEN [out |-> Pending, st |-> st]
    ELSE IF msg.topic # "Validation"
    THEN [out |-> HandlerErr("InvalidMsgType"), st |-> st]
    ELSE LET v == collect_vote(st.v_aggr, committee, msg)
         IN IF ~v.some THEN [out |-> Pending, st |-> st]
            ELSE LET r == add_step_votes(st.reg, step, v.hash, v.sv,
                                         "Validation", TRUE)
                     st2 == [st EXCEPT !.v_aggr = v.aggr, !.reg = r.reg]
                 IN IF v.quorum_reached
                    THEN (IF v.hash = ZeroHash
                          THEN [out |-> final_result_with_timeout(
                                            v.sv, v.hash, "NilQuorum"),
                                st |-> st2]
                          ELSE [out |-> final_result(
                                            v.sv, v.hash, "ValidQuorum"),
                                st |-> st2])
                    ELSE [out |-> Pending, st |-> st2]

\* collect with the zero-hash test inverted.
validation_collect_swapped(st, msg, step, committee) ==
    IF step # st.v_curr_step THEN [out |-> Pending, st |-> st]
    ELSE IF msg.topic # "Validation"
    THEN [out |-> HandlerErr("InvalidMsgType"), st |-> st]
    ELSE LET v == collect_vote(st.v_aggr, committee, msg)
         IN IF ~v.some THEN [out |-> Pending, st |-> st]
            ELSE LET r == add_step_votes(st.reg, step, v.hash, v.sv,
                                         "Validation", v.quorum_reached)
                     st2 == [st EXCEPT !.v_aggr = v.aggr, !.reg = r.reg]
                 IN IF v.quorum_reached
                    THEN (IF v.hash # ZeroHash
                          THEN [out |-> final_result_with_timeout(
                                            v.sv, v.hash, "NilQuorum"),
                                st |-> st2]
                          ELSE [out |-> final_result(
                                            v.sv, v.hash, "ValidQuorum"),
                                st |-> st2])
                    ELSE [out |-> Pending, st |-> st2]

\* collect that ends the step with the first vote it tallies.
validation_collect_first_vote_wins(st, msg, step, committee) ==
    IF step # st.v_curr_step THEN [out |-> Pending, st |-> st]
    ELSE IF msg.topic # "Validation"
    THEN [out |-> HandlerErr("InvalidMsgType"), st |-> st]
    ELSE LET v == collect_vote(st.v_aggr, committee, msg)
         IN IF ~v.some THEN [out |-> Pending, st |-> st]
            ELSE LET r == add_step_votes(st.reg, step, v.hash, v.sv,
                                         "Validation", v.quorum_reached)
                     st2 == [st EXCEPT !.v_aggr = v.aggr, !.reg = r.reg]
                 IN IF v.hash = ZeroHash
                    THEN [out |-> final_result_with_timeout(
                                      v.sv, v.hash, "NilQuorum"),
                          st |-> st2]
                    ELSE [out |-> final_result(v.sv, v.hash, "ValidQuorum"),
                          st |-> st2]

\* ValidationHandler::collect(msg, ru, step, committee)
validation_collect(st, msg, step, committee) ==
    IF step # st.v_curr_step THEN [out |-> Pending, st |-> st]
    ELSE IF msg.topic # "Validation"
    THEN [out |-> HandlerErr("InvalidMsgType"), st |-> st]
    ELSE LET v == collect_vote(st.v_aggr, committee, msg)
         IN IF ~v.some THEN [out |-> Pending, st |-> st]
            ELSE LET r == add_step_votes(st.reg, step, v.hash, v.sv,
                                         "Validation", v.quorum_reached)
                     st2 == [st EXCEPT !.v_aggr = v.aggr, !.reg = r.reg]
                 IN IF v.quorum_reached
                    THEN (IF v.hash = ZeroHash
                          THEN [out |-> final_result_with_timeout(
                                            v.sv, v.hash, "NilQuorum"),
                                st |-> st2]
                          ELSE [out |-> final_result(
                                            v.sv, v.hash, "ValidQuorum"),
                                st |-> st2])
                    ELSE [out |-> Pending, st |-> st2]

\* collect_from_past discarding the registry's answer, as collect does.
validation_collect_from_past_discard(st, msg, step, committee) ==
    IF msg.topic # "Validation"
    THEN [out |-> HandlerErr("InvalidMsgType"), st |-> st]
    ELSE LET v == collect_vote(st.v_aggr, committee, msg)
         IN IF ~v.some THEN [out |-> Pending, st |-> st]
            ELSE LET r == add_step_votes(st.reg, step, v.hash, v.sv,
                                         "Validation", v.quorum_reached)
                     st2 == [st EXCEPT !.v_aggr = v.aggr, !.reg = r.reg]
                 IN [out |-> Pending, st |-> st2]

\* ValidationHandler::collect_from_past(msg, ru, step, committee)
validation_collect_from_past(st, msg, step, committee) ==
    IF msg.topic # "Validation"
    THEN [out |-> HandlerErr("InvalidMsgType"), st |-> st]
    ELSE LET v == collect_vote(st.v_aggr, committee, msg)
         IN IF ~v.some THEN [out |-> Pending, st |-> st]
            ELSE LET r == add_step_votes(st.reg, step, v.hash, v.sv,
                                         "Validation", v.quorum_reached)
                     st2 == [st EXCEPT !.v_aggr = v.aggr, !.reg = r.reg]
                 IN IF r.some THEN [out |-> Ready(r.msg), st |-> st2]
                    ELSE [out |-> Pending, st |-> st2]

\* handle_timeout reporting a nil quorum.
validation_handle_timeout_nil ==
    final_result(DefaultSV, ZeroHash, "NilQuorum")

\* ValidationHandler::handle_timeout
validation_handle_timeout ==
    final_result(DefaultSV, ZeroHash, "NoQuorum")

\* ------------------------------------------- first-step Reduction handler
\* A block, by its header hash and by where the node has it from: the
\* Candidate message it received ("local"), the database ("db"), or none
\* (Block::default(), whose header hash is all zeroes).
Block(hash, origin) == [hash |-> hash, origin |-> origin]
DefaultBlock == Block(ZeroHash, "default")
\* A candidate whose hash differs from every hash the committee votes for.
OtherHash == "B"

\* Reduction::new
ReductionNew == [aggr |-> EmptyAggr, candidate |-> DefaultBlock]

\* HandleMsgOutput::Result(msg): the step goes on.
ReductionPending ==
    [kind |-> "Result", sv |-> DefaultSV, candidate |-> DefaultBlock]
\* final_result(sv, candidate) of the first-step handler:
\* HandleMsgOutput::FinalResult(StepVotesWithCandidate {sv, candidate}).
reduction_final_result(sv, candidate) ==
    [kind |-> "FinalResult", sv |-> sv, candidate |-> candidate]
\* empty_result!()
empty_result == reduction_final_result(DefaultSV, DefaultBlock)
ReductionErr(e) == [kind |-> e, sv |-> DefaultSV, candidate |-> DefaultBlock]

\* Database::get_candidate_block_by_hash(hash) -> Result<Block>
get_candidate_block_by_hash(blocks, hash) ==
    IF hash \in blocks THEN [ok |-> TRUE, block |-> Block(hash, "db")]
    ELSE [ok |-> FALSE, block |-> DefaultBlock]

\* Aggregator::collect_vote as the first-step handler uses it: the vote is
\* tallied, and Some((hash, sv)) is returned when it brought the hash to
\* quorum.
reduction_collect_vote(ag, committee, msg) ==
    LET v == collect_vote(ag, committee, msg)
    IN [some |-> v.some /\ v.quorum_reached, hash |-> v.hash, sv |-> v.sv,
        aggr |-> v.aggr]

\* Reduction::collect that answers with the locally held candidate whatever
\* the hash at quorum.
reduction_collect_local_candidate(red, blocks, msg, committee) ==
    IF msg.topic \notin {"Reduction", "Empty"}
    THEN [out |-> ReductionErr("InvalidMsgType"), red |-> red]
    ELSE LET v == reduction_collect_vote(red.aggr, committee, msg)
             red2 == [red EXCEPT !.aggr = v.aggr]
         IN IF ~v.some THEN [out |-> ReductionPending, red |-> red2]
            ELSE IF v.hash = ZeroHash
            THEN [out |-> reduction_final_result(DefaultSV, DefaultBlock),
                  red |-> red2]
            ELSE [out |-> reduction_final_result(v.sv, red.candidate),
                  red |-> red2]

\* Reduction::collect(msg, ru, step, committee)
reduction_collect(red, blocks, msg, committee) ==
    IF msg.topic \notin {"Reduction", "Empty"}
    THEN [out |-> ReductionErr("InvalidMsgType"), red |-> red]
    ELSE LET v == reduction_collect_vote(red.aggr, committee, msg)
             red2 == [red EXCEPT !.aggr = v.aggr]
         IN IF ~v.some THEN [out |-> ReductionPending, red |-> red2]
            ELSE IF v.hash = ZeroHash
            THEN [out |-> reduction_final_result(DefaultSV, DefaultBlock),
                  red |-> red2]
            ELSE IF v.hash # red.candidate.hash
            THEN LET b == get_candidate_block_by_hash(blocks, v.hash)
                 IN IF b.ok
                    THEN [out |-> reduction_final_result(v.sv, b.block),
                          red |-> red2]
                    ELSE [out |-> empty_result, red |-> red2]
            ELSE [out |-> reduction_final_result(v.sv, red.candidate),
                  red |-> red2]

\* Reduction::handle_timeout
reduction_handle_timeout(red) ==
    reduction_final_result(DefaultSV, red.candidate)

\* ----------------------------------------------------- Ratification handler
RatificationResult(sv, hash, quorum) ==
    OutMsg("RatificationResult", 0, hash, quorum, DefaultSV, sv)

\* RatificationHandler::collect: aggregate as in Validation and record in
\* the registry; a completed certificate is the step's output.
ratification_collect(st, msg, step, committee) ==
    IF msg.topic # "Ratification"
    THEN [out |-> HandlerErr("InvalidMsgType"), st |-> st]
    ELSE LET v == collect_vote(st.r_aggr, committee, msg)
         IN IF ~v.some THEN [out |-> Pending, st |-> st]
            ELSE LET r == add_step_votes(st.reg, step, v.hash, v.sv,
                                         "Ratification", v.quorum_reached)
                     st2 == [st EXCEPT !.r_aggr = v.aggr, !.reg = r.reg]
                 IN IF r.some THEN [out |-> Ready(r.msg), st |-> st2]
                    ELSE IF v.quorum_reached
                    THEN [out |-> Ready(RatificationResult(v.sv, v.hash,
                                     IF v.hash = ZeroHash THEN "NilQuorum"
                                     ELSE "ValidQuorum")),
                          st |-> st2]
                    ELSE [out |-> Pending, st |-> st2]

\* RatificationHandler::collect_from_past
ratification_collect_from_past(st, msg, step, committee) ==
    IF msg.topic # "Ratification"
    THEN [out |-> HandlerErr("InvalidMsgType"), st |-> st]
    ELSE LET v == collect_vote(st.r_aggr, committee, msg)
         IN IF ~v.some THEN [out |-> Pending, st |-> st]
            ELSE LET r == add_step_votes(st.reg, step, v.hash, v.sv,
                                         "Ratification", v.quorum_reached)
                     st2 == [st EXCEPT !.r_aggr = v.aggr, !.reg = r.reg]
                 IN IF r.some THEN [out |-> Ready(r.msg), st |-> st2]
                    ELSE [out |-> Pending, st |-> st2]

\* --------------------------------------------------------- Proposal handler
\* ProposalHandler::collect: the generator's Candidate is the step's output.
proposal_collect(st, msg, step, committee) ==
    IF msg.topic # "Candidate"
    THEN [out |-> HandlerErr("InvalidMsgType"), st |-> st]
    ELSE [out |-> Ready(OutMsg("Candidate", msg.iteration, msg.hash,
                               "NoQuorum", DefaultSV, DefaultSV)),
          st |-> st]

\* ------------------------------------------------------- handler dispatch
collect(phase, st, msg, committee) ==
    IF phase = "Validation"
    THEN validation_collect(st, msg, get_step(msg), committee)
    ELSE IF phase = "Ratification"
    THEN ratification_collect(st, msg, get_step(msg), committee)
    ELSE proposal_collect(st, msg, get_step(msg), committee)

handle_timeout(phase) ==
    IF phase = "Validation" THEN validation_handle_timeout
    ELSE Ready(EmptyMsg)

\* IterationCtx::collect_past_event(ru, msg) -> Option<Message>
collect_past_event(st, round_committees, msg) ==
    IF get_step(msg) \notin DOMAIN round_committees
    THEN [some |-> FALSE, msg |-> EmptyMsg, st |-> st]
    ELSE LET committee == get_committee(round_committees, get_step(msg))
             r == IF msg.topic = "Validation"
                  THEN validation_collect_from_past(
                           st, msg, get_step(msg), committee)
                  ELSE IF msg.topic = "Ratification"
                  THEN ratification_collect_from_past(
                           st, msg, get_step(msg), committee)
                  ELSE [out |-> Pending, st |-> st]
         IN [some |-> r.out.kind = "Ready", msg |-> r.out.msg,
             st |-> Log(r.st, "collect_from_past")]

\* -------------------------------------------------------- execution context
None(st) == [some |-> FALSE, msg |-> EmptyMsg, st |-> st]
Some(m, st) == [some |-> TRUE, msg |-> m, st |-> st]

\* ExecutionCtx::am_member: the local node (round_update.pubkey_bls) is a
\* member of the committee.
am_member(committee) == is_member(committee, LocalPk)

\* ExecutionCtx::try_vote: looks the committee of msg_step up and, when the
\* local node is a member, writes a debug line; no vote message is built or
\* sent.
try_vote(st, round_committees, msg_step, topic) ==
    IF msg_step \in DOMAIN round_committees
    THEN (IF am_member(get_committee(round_committees, msg_step))
          THEN Log(st, IF topic = "Validation" THEN "try_vote:Validation"
                       ELSE "try_vote:Ratification")
          ELSE st)
    ELSE Log(st, "committee not found")

\* ExecutionCtx::vote_for_former_candidate
vote_for_former_candidate(st, round_committees, msg_step, cur_step) ==
    LET s1 == IF msg_step < cur_step
              THEN try_vote(st, round_committees, msg_step + 1, "Validation")
              ELSE st
    IN IF msg_step + 2 <= cur_step
       THEN try_vote(s1, round_committees, msg_step + 2, "Ratification")
       ELSE s1

\* quorum_sender.send(m)
quorum_send(st, m) ==
    Log([st EXCEPT !.quorum_ch = Append(@, m)], "quorum_send")

\* process_past_events handing the Quorum message back to the event loop as
\* well as sending it.
process_past_events_returns(st, cur_step, round_committees, msg, ok) ==
    IF msg.round # CurRound THEN None(Log(st, "past_other_round"))
    ELSE LET s1 == outbound_send(st, msg, ok)
             s2 == IF msg.topic = "Candidate"
                   THEN vote_for_former_candidate(s1, round_committees,
                                                  get_step(msg), cur_step)
                   ELSE s1
             r == collect_past_event(s2, round_committees, msg)
         IN IF r.some /\ r.msg.topic = "Quorum"
            THEN Some(r.msg, quorum_send(r.st, r.msg))
            ELSE None(r.st)

\* process_past_events returning the Quorum message as the step's result
\* instead of sending it on the quorum channel.
process_past_events_ends_step(st, cur_step, round_committees, msg, ok) ==
    IF msg.round # CurRound THEN None(Log(st, "past_other_round"))
    ELSE LET s1 == outbound_send(st, msg, ok)
             s2 == IF msg.topic = "Candidate"
                   THEN vote_for_former_candidate(s1, round_committees,
                                                  get_step(msg), cur_step)
                   ELSE s1
             r == collect_past_event(s2, round_committees, msg)
         IN IF r.some /\ r.msg.topic = "Quorum"
            THEN Some(r.msg, r.st)
            ELSE None(r.st)

\* ExecutionCtx::process_past_events
process_past_events(st, cur_step, round_committees, msg, ok) ==
    IF msg.round # CurRound THEN None(Log(st, "past_other_round"))
    ELSE LET s1 == outbound_send(st, msg, ok)
             s2 == IF msg.topic = "Candidate"
                   THEN vote_for_former_candidate(s1, round_committees,
                                                  get_step(msg), cur_step)
                   ELSE s1
             r == collect_past_event(s2, round_committees, msg)
         IN IF r.some /\ r.msg.topic = "Quorum"
            THEN None(quorum_send(r.st, r.msg))
            ELSE None(r.st)

\* The arms of the matches on a handler's output in execution_ctx.rs.
Arms == {"Ready", "Pending"}

\* The arm an output takes in `match output { Ready(m) => .., Pending(_) =>
\* .. }` (process_inbound_msg) and `if let Ok(Ready(msg))`
\* (handle_future_msgs).  Neither names ReadyWithTimeoutIncrease, and the
\* HandleMsgOutput of msg_handler.rs has no such variant: which of the two
\* arms that output takes is left to the build; the timeout table is
\* written in neither.
match_output(out, arm) ==
    IF out.kind = "ReadyWithTimeoutIncrease" THEN arm ELSE out.kind

\* process_inbound_msg collecting with the committee of the iteration's
\* Ratification step.
process_inbound_msg_wrong_committee(st, iteration, step, round_committees, msg, ok, arm) ==
    LET committee == get_committee(round_committees,
                                   to_step("Ratification", iteration))
        ret == is_valid(step, msg, iteration, step,
                        get_committee(round_committees,
                                      to_step(step, iteration)),
                        round_committees)
        s0 == Log(st, ret)
    IN IF ret = "Ok"
       THEN LET s1 == outbound_send(s0, msg, ok)
                c == collect(step, s1, msg, committee)
            IN IF match_output(c.out, arm) = "Ready"
               THEN Some(c.out.msg, Log(c.st, "collect:Ready"))
               ELSE IF match_output(c.out, arm) = "Pending"
               THEN None(Log(c.st, "collect:Pending"))
               ELSE None(Log(c.st, "collect:Err"))
       ELSE IF ret = "FutureEvent"
       THEN None(Log([s0 EXCEPT !.future_msgs =
                         put_event(@, msg.round, get_step(msg), msg)],
                     "put_event"))
       ELSE IF ret = "PastEvent"
       THEN process_past_events(s0, to_step(step, iteration),
                                round_committees, msg, ok)
       ELSE None(s0)

\* process_inbound_msg that keeps the loop going after a Ready.
process_inbound_msg_keep_going(st, iteration, step, round_committees, msg, ok, arm) ==
    LET committee == get_committee(round_committees, to_step(step, iteration))
        ret == is_valid(step, msg, iteration, step, committee,
                        round_committees)
        s0 == Log(st, ret)
    IN IF ret = "Ok"
       THEN LET s1 == outbound_send(s0, msg, ok)
                c == collect(step, s1, msg, committee)
            IN IF match_output(c.out, arm) = "Ready"
               THEN None(Log(c.st, "collect:Ready"))
               ELSE IF match_output(c.out, arm) = "Pending"
               THEN None(Log(c.st, "collect:Pending"))
               ELSE None(Log(c.st, "collect:Err"))
       ELSE IF ret = "FutureEvent"
       THEN None(Log([s0 EXCEPT !.future_msgs =
                         put_event(@, msg.round, get_step(msg), msg)],
                     "put_event"))
       ELSE IF ret = "PastEvent"
       THEN process_past_events(s0, to_step(step, iteration),
                                round_committees, msg, ok)
       ELSE None(s0)

\* process_inbound_msg that ends the step when collect fails.
process_inbound_msg_err_propagates(st, iteration, step, round_committees, msg, ok, arm) ==
    LET committee == get_committee(round_committees, to_step(step, iteration))
        ret == is_valid(step, msg, iteration, step, committee,
                        round_committees)
        s0 == Log(st, ret)
    IN IF ret = "Ok"
       THEN LET s1 == outbound_send(s0, msg, ok)
                c == collect(step, s1, msg, committee)
            IN IF match_output(c.out, arm) = "Ready"
               THEN Some(c.out.msg, Log(c.st, "collect:Ready"))
               ELSE IF match_output(c.out, arm) = "Pending"
               THEN None(Log(c.st, "collect:Pending"))
               ELSE Some(EmptyMsg, Log(c.st, "collect:Err"))
       ELSE IF ret = "FutureEvent"
       THEN None(Log([s0 EXCEPT !.future_msgs =
                         put_event(@, msg.round, get_step(msg), msg)],
                     "put_event"))
       ELSE IF ret = "PastEvent"
       THEN process_past_events(s0, to_step(step, iteration),
                                round_committees, msg, ok)
       ELSE None(s0)

\* process_inbound_msg parking a future message under the step being run.
process_inbound_msg_park_current(st, iteration, step, round_committees, msg, ok, arm) ==
    LET committee == get_committee(round_committees, to_step(step, iteration))
        ret == is_valid(step, msg, iteration, step, committee,
                        round_committees)
        s0 == Log(st, ret)
    IN IF ret = "Ok"
       THEN LET s1 == outbound_send(s0, msg, ok)
                c == collect(step, s1, msg, committee)
            IN IF match_output(c.out, arm) = "Ready"
               THEN Some(c.out.msg, Log(c.st, "collect:Ready"))
               ELSE IF match_output(c.out, arm) = "Pending"
               THEN None(Log(c.st, "collect:Pending"))
               ELSE None(Log(c.st, "collect:Err"))
       ELSE IF ret = "FutureEvent"
       THEN None(Log([s0 EXCEPT !.future_msgs =
                         put_event(@, CurRound, to_step(step, iteration), msg)],
                     "put_event"))
       ELSE IF ret = "PastEvent"
       THEN process_past_events(s0, to_step(step, iteration),
                                round_committees, msg, ok)
       ELSE None(s0)

\* process_inbound_msg that gives the message up when it cannot re-publish it.
process_inbound_msg_send_aborts(st, iteration, step, round_committees, msg, ok, arm) ==
    LET committee == get_committee(round_committees, to_step(step, iteration))
        ret == is_valid(step, msg, iteration, step, committee,
                        round_committees)
        s0 == Log(st, ret)
    IN IF ret = "Ok"
       THEN LET s1 == outbound_send(s0, msg, ok)
                c == collect(step, s1, msg, committee)
            IN IF ~ok THEN None(s1)
               ELSE IF match_output(c.out, arm) = "Ready"
               THEN Some(c.out.msg, Log(c.st, "collect:Ready"))
               ELSE IF match_output(c.out, arm) = "Pending"
               THEN None(Log(c.st, "collect:Pending"))
               ELSE None(Log(c.st, "collect:Err"))
       ELSE IF ret = "FutureEvent"
       THEN None(Log([s0 EXCEPT !.future_msgs =
                         put_event(@, msg.round, get_step(msg), msg)],
                     "put_event"))
       ELSE IF ret = "PastEvent"
       THEN process_past_events(s0, to_step(step, iteration),
                                round_committees, msg, ok)
       ELSE None(s0)

\* ExecutionCtx::process_inbound_msg
process_inbound_msg(st, iteration, step, round_committees, msg, ok, arm) ==
    LET committee == get_committee(round_committees, to_step(step, iteration))
        ret == is_valid(step, msg, iteration, step, committee,
                        round_committees)
        s0 == Log(st, ret)
    IN IF ret = "Ok"
       THEN LET s1 == outbound_send(s0, msg, ok)
                c == collect(step, s1, msg, committee)
            IN IF match_output(c.out, arm) = "Ready"
               THEN Some(c.out.msg, Log(c.st, "collect:Ready"))
               ELSE IF match_output(c.out, arm) = "Pending"
               THEN None(Log(c.st, "collect:Pending"))
               ELSE None(Log(c.st, "collect:Err"))
       ELSE IF ret = "FutureEvent"
       THEN None(Log([s0 EXCEPT !.future_msgs =
                         put_event(@, msg.round, get_step(msg), msg)],
                     "put_event"))
       ELSE IF ret = "PastEvent"
       THEN process_past_events(s0, to_step(step, iteration),
                                round_committees, msg, ok)
       ELSE None(s0)

\* process_timeout_event that doubles the timeout of every step-name.
process_timeout_event_bumps_all(st, step) ==
    LET s0 == on_timeout_event(on_timeout_event(
                  on_timeout_event(st, "Proposal"), "Validation"),
                  "Ratification")
        s1 == Log(s0, "on_timeout_event")
        out == handle_timeout(step)
        s2 == Log(s1, "handle_timeout")
    IN IF out.kind = "Ready" THEN Some(out.msg, s2) ELSE Some(EmptyMsg, s2)

\* process_timeout_event that leaves the timeout table alone.
process_timeout_event_no_update(st, step) ==
    LET s1 == Log(st, "on_timeout_event")
        out == handle_timeout(step)
        s2 == Log(s1, "handle_timeout")
    IN IF out.kind = "Ready" THEN Some(out.msg, s2) ELSE Some(EmptyMsg, s2)

\* ExecutionCtx::process_timeout_event
process_timeout_event(st, step) ==
    LET s1 == Log(on_timeout_event(st, step), "on_timeout_event")
        out == handle_timeout(step)
        s2 == Log(s1, "handle_timeout")
    IN IF out.kind = "Ready" THEN Some(out.msg, s2) ELSE Some(EmptyMsg, s2)

\* The loop of handle_future_msgs over the drained messages.  oks holds the
\* results of the sends on the outbound channel, one for each message that
\* is re-published, in the order of the sends.
RECURSIVE future_loop(_, _, _, _, _, _, _)
future_loop(st, iteration, step, round_committees, msgs, oks, arm) ==
    IF msgs = <<>> THEN None(st)
    ELSE LET msg == Head(msgs)
             committee == get_committee(round_committees,
                                        to_step(step, iteration))
             ret == is_valid(step, msg, iteration, step, committee,
                             round_committees)
             s0 == Log(st, ret)
         IN IF ret = "Ok"
            THEN LET s1 == outbound_send(s0, msg, Head(oks))
                     c == collect(step, s1, msg, committee)
                     k == match_output(c.out, arm)
                 IN IF k = "Ready"
                    THEN Some(c.out.msg, Log(c.st, "collect:Ready"))
                    ELSE future_loop(
                             Log(c.st, IF k = "Pending"
                                       THEN "collect:Pending"
                                       ELSE "collect:Err"),
                             iteration, step, round_committees,
                             Tail(msgs), Tail(oks), arm)
            ELSE future_loop(s0, iteration, step, round_committees,
                             Tail(msgs), oks, arm)

\* handle_future_msgs that parks again the drained messages which failed the
\* re-validation.
handle_future_msgs_repark(st, iteration, step, round_committees, oks, arm) ==
    LET sid == to_step(step, iteration)
        d == drain_events(st.future_msgs, CurRound, sid)
        s1 == Log([st EXCEPT !.future_msgs = d.queue], "drain_events")
        r == future_loop(s1, iteration, step, round_committees, d.msgs, oks,
                         arm)
        failed == SelectSeq(d.msgs,
                    LAMBDA m : is_valid(step, m, iteration, step,
                                        get_committee(round_committees, sid),
                                        round_committees) # "Ok")
    IN [r EXCEPT !.st.future_msgs[<<CurRound, sid>>] = failed]

\* handle_future_msgs that drains the parked messages and drops them.
handle_future_msgs_drop(st, iteration, step, round_committees, oks, arm) ==
    LET d == drain_events(st.future_msgs, CurRound, to_step(step, iteration))
    IN None(Log([st EXCEPT !.future_msgs = d.queue], "drain_events"))

\* ExecutionCtx::handle_future_msgs
handle_future_msgs(st, iteration, step, round_committees, oks, arm) ==
    LET d == drain_events(st.future_msgs, CurRound, to_step(step, iteration))
        s1 == Log([st EXCEPT !.future_msgs = d.queue], "drain_events")
    IN future_loop(s1, iteration, step, round_committees, d.msgs, oks, arm)

\* ------------------------------------------------------------------- state
VARIABLES
    pc,             \* round task: "running", "done" or "cancelled"
    iteration,      \* current iteration
    step,           \* current step-name
    stage,          \* "entry" (before handle_future_msgs), "loop", "returned"
    timeout,        \* the step-name's timeout event_loop read at its entry
    deadline_fired, \* the deadline computed at event_loop entry has passed
    delivered,      \* receives on the inbound channel so far
    v_aggr,         \* ValidationHandler.aggr
    r_aggr,         \* RatificationHandler.aggr
    v_curr_step,    \* ValidationHandler.curr_step
    reg,            \* step-votes registry
    committees,     \* the committees cached in the iteration ctx, by step-id
    future_msgs,    \* future-message queue
    timeouts,       \* per step-name timeouts
    quorum_ch,      \* messages sent on the quorum channel
    log,            \* calls made by the latest handler run
    step_out,       \* output of the step that returned
    validation_result, \* per iteration, the QuorumType its Validation step output
    reduction,      \* first-step Reduction handler: its aggr and candidate
    db,             \* hashes of the candidate blocks the database returns
    reduction_out   \* what the Reduction handler returned last

vars == <<round_update, pc, iteration, step, stage, timeout, deadline_fired, delivered, v_aggr,
          r_aggr, v_curr_step, reg, committees, future_msgs, timeouts,
          quorum_ch, log, step_out, validation_result, reduction, db,
          reduction_out>>

\* The first-step Reduction handler and the database it reads: the steps of
\* the round driven by the Validation and Ratification handlers leave them
\* alone.
reduction_vars == <<reduction, db, reduction_out>>

\* The handler state at the start of a handler run.
St ==
    [v_aggr |-> v_aggr, r_aggr |-> r_aggr, v_curr_step |-> v_curr_step,
     reg |-> reg, future_msgs |-> future_msgs, timeouts |-> timeouts,
     quorum_ch |-> quorum_ch, log |-> <<>>]

SetSt(s) ==
    /\ v_aggr' = s.v_aggr
    /\ r_aggr' = s.r_aggr
    /\ v_curr_step' = s.v_curr_step
    /\ reg' = s.reg
    /\ future_msgs' = s.future_msgs
    /\ timeouts' = s.timeouts
    /\ quorum_ch' = s.quorum_ch
    /\ log' = s.log

\* Step-ids of one iteration.
iteration_committees(it) == {to_step(n, it) : n \in StepNames}
\* derive_committees that leaves the Ratification committee to be derived
\* later.
derive_committees_two_steps(round_committees, it) ==
    LET p == to_step("Proposal", it)
        v == to_step("Validation", it)
    IN save_committee(save_committee(round_committees, p, sortition(p)),
                      v, sortition(v))

\* The committees of an iteration are derived by sortition and saved when
\* the iteration starts.
derive_committees(round_committees, it) ==
    LET p == to_step("Proposal", it)
        v == to_step("Validation", it)
        r == to_step("Ratification", it)
    IN save_committee(
           save_committee(
               save_committee(round_committees, p, sortition(p)),
               v, sortition(v)),
           r, sortition(r))

Init ==
    /\ round_update = [round |-> FirstRound]
    /\ pc = "running"
    /\ iteration = 0
    /\ step = "Proposal"
    /\ stage = "entry"
    /\ timeout = 0
    /\ deadline_fired = FALSE
    /\ delivered = 0
    /\ v_aggr = EmptyAggr
    /\ r_aggr = EmptyAggr
    /\ v_curr_step = 0
    /\ reg = EmptyReg
    /\ committees = derive_committees(EmptyCommittees, 0)
    /\ future_msgs = EmptyQueue
    /\ timeouts = BaseTimeout
    /\ quorum_ch = <<>>
    /\ log = <<>>
    /\ step_out = EmptyMsg
    /\ validation_result = [i \in Iters |-> "Pending"]
    /\ reduction = ReductionNew
    /\ db = {}
    /\ reduction_out = ReductionPending

\* The messages of l that the current step re-publishes: those is_valid
\* accepts.  Each of them is one send on the outbound channel.
republished(l) ==
    SelectSeq(l, LAMBDA m :
        is_valid(step, m, iteration, step,
                 get_committee(committees, to_step(step, iteration)),
                 committees) = "Ok")

\* The arms the outputs of a run over the messages l can take: only the
\* Validation handler's collect returns ReadyWithTimeoutIncrease, and only
\* on a vote for the zero hash; for every other run the choice of the arm
\* makes no difference and one arm stands for both.
arms_of(l) ==
    IF step = "Validation"
       /\ \E n \in 1 .. Len(l) : l[n].hash = ZeroHash
    THEN Arms ELSE {"Ready"}

\* What the event loop does with the Option a handler run returns: Some(m)
\* ends the step with m, None keeps the loop waiting.
loop_result(r) ==
    /\ SetSt(r.st)
    /\ stage' = IF r.some THEN "returned" ELSE "loop"
    /\ step_out' = IF r.some THEN r.msg ELSE step_out

\* Step entry: handle_future_msgs; unless it ended the step, event_loop
\* reads the step-name's timeout and computes its deadline, now + timeout,
\* from it: with a timeout of zero the deadline has passed when the loop
\* polls, with a positive timeout it has not.
HandleFutureMsgs ==
    /\ pc = "running" /\ stage = "entry"
    /\ UNCHANGED <<round_update, reduction_vars>>
    /\ \E oks \in [1 .. Len(republished(future_msgs[<<CurRound,
                                   to_step(step, iteration)>>])) -> BOOLEAN],
          arm \in arms_of(future_msgs[<<CurRound, to_step(step, iteration)>>]) :
          \E r \in {handle_future_msgs(St, iteration, step, committees,
                                       oks, arm)} :
             /\ loop_result(r)
             /\ timeout' = IF r.some THEN timeout ELSE r.st.timeouts[step]
             /\ deadline_fired' = (~r.some /\ r.st.timeouts[step] = 0)
    /\ UNCHANGED <<pc, iteration, step, delivered, committees,
                   validation_result>>

\* event_loop, Ok(Ok(msg)): an inbound message is ready when the loop polls.
RecvMsg ==
    /\ pc = "running" /\ stage = "loop"
    /\ UNCHANGED <<round_update, reduction_vars>>
    /\ delivered < MaxMsgs
    /\ \E msg \in InboundMsgs, ok \in BOOLEAN :
          \E arm \in arms_of(<<msg>>) :
             \E r \in {process_inbound_msg(St, iteration, step, committees,
                                           msg, ok, arm)} :
             loop_result(r)
    /\ delivered' = delivered + 1
    /\ UNCHANGED <<pc, iteration, step, timeout, deadline_fired, committees,
                   validation_result>>

\* event_loop, Ok(Err(_)): the receive on the inbound channel failed.
RecvErr ==
    /\ pc = "running" /\ stage = "loop"
    /\ UNCHANGED <<round_update, reduction_vars>>
    /\ delivered < MaxMsgs
    /\ loop_result(None(Log(St, "recv_err")))
    /\ delivered' = delivered + 1
    /\ UNCHANGED <<pc, iteration, step, timeout, deadline_fired, committees,
                   validation_result>>

\* Time passes the deadline.
DeadlineElapse ==
    /\ pc = "running" /\ stage = "loop" /\ ~deadline_fired
    /\ UNCHANGED <<round_update, reduction_vars>>
    /\ deadline_fired' = TRUE
    /\ UNCHANGED <<pc, iteration, step, stage, timeout, delivered, v_aggr,
                   r_aggr, v_curr_step, reg, committees, future_msgs, timeouts,
                   quorum_ch, log, step_out, validation_result>>

\* event_loop, Err(_): the deadline passed and no message was ready.
TimeoutEvent ==
    /\ pc = "running" /\ stage = "loop" /\ deadline_fired
    /\ UNCHANGED <<round_update, reduction_vars>>
    /\ \E r \in {process_timeout_event(St, step)} : loop_result(r)
    /\ UNCHANGED <<pc, iteration, step, timeout, deadline_fired, delivered,
                   committees, validation_result>>

\* The round driver starting the same iteration again after a Ratification
\* step without a valid quorum.
NextStep_same_iteration ==
    /\ pc = "running" /\ stage = "returned"
    /\ (step = "Ratification" /\ step_out.quorum # "ValidQuorum")
       => iteration < MaxIter
    /\ UNCHANGED <<round_update, reduction_vars>>
    /\ log' = <<>>
    /\ timeout' = 0
    /\ deadline_fired' = FALSE
    /\ UNCHANGED <<delivered, v_aggr, r_aggr, reg, timeouts, step_out,
                   future_msgs>>
    /\ validation_result' =
          IF step = "Validation"
          THEN [validation_result EXCEPT ![iteration] = step_out.quorum]
          ELSE validation_result
    /\ IF step = "Proposal"
       THEN /\ step' = "Validation"
            /\ v_curr_step' = validation_reset(to_step("Validation", iteration))
            /\ stage' = "entry"
            /\ UNCHANGED <<pc, iteration, committees, quorum_ch>>
       ELSE IF step = "Validation"
       THEN /\ step' = "Ratification"
            /\ stage' = "entry"
            /\ UNCHANGED <<pc, iteration, committees, quorum_ch, v_curr_step>>
       ELSE IF step_out.quorum = "ValidQuorum"
       THEN /\ quorum_ch' = IF step_out.topic = "Quorum"
                            THEN Append(quorum_ch, step_out) ELSE quorum_ch
            /\ pc' = "done"
            /\ UNCHANGED <<iteration, step, stage, committees, v_curr_step>>
       ELSE /\ iteration' = iteration
            /\ step' = "Proposal"
            /\ stage' = "entry"
            /\ committees' = derive_committees(committees, iteration + 1)
            /\ UNCHANGED <<pc, quorum_ch, v_curr_step>>

\* Round driver, within a round: the step returned; start the next step.
\* After Ratification the round ends when the step yielded a valid quorum
\* (the Quorum message of a full certificate is emitted on the quorum
\* channel), and otherwise the next iteration starts with its committees
\* derived.  The model runs the iterations up to MaxIter.
NextStep ==
    /\ pc = "running" /\ stage = "returned"
    /\ (step = "Ratification" /\ step_out.quorum # "ValidQuorum")
       => iteration < MaxIter
    /\ UNCHANGED <<round_update, reduction_vars>>
    /\ log' = <<>>
    /\ timeout' = 0
    /\ deadline_fired' = FALSE
    /\ UNCHANGED <<delivered, v_aggr, r_aggr, reg, timeouts, step_out,
                   future_msgs>>
    /\ validation_result' =
          IF step = "Validation"
          THEN [validation_result EXCEPT ![iteration] = step_out.quorum]
          ELSE validation_result
    /\ IF step = "Proposal"
       THEN /\ step' = "Validation"
            /\ v_curr_step' = validation_reset(to_step("Validation", iteration))
            /\ stage' = "entry"
            /\ UNCHANGED <<pc, iteration, committees, quorum_ch>>
       ELSE IF step = "Validation"
       THEN /\ step' = "Ratification"
            /\ stage' = "entry"
            /\ UNCHANGED <<pc, iteration, committees, quorum_ch, v_curr_step>>
       ELSE IF step_out.quorum = "ValidQuorum"
       THEN /\ quorum_ch' = IF step_out.topic = "Quorum"
                            THEN Append(quorum_ch, step_out) ELSE quorum_ch
            /\ pc' = "done"
            /\ UNCHANGED <<iteration, step, stage, committees, v_curr_step>>
       ELSE /\ iteration' = iteration + 1
            /\ step' = "Proposal"
            /\ stage' = "entry"
            /\ committees' = derive_committees(committees, iteration + 1)
            /\ UNCHANGED <<pc, quorum_ch, v_curr_step>>

\* Round driver, round change: the round ended and the node runs the next
\* one with a new RoundUpdate.  The iteration context (committees, timeout
\* table at the base values), the handlers and the step-votes registry are
\* constructed for the new round; the future-message queue is the one of
\* the finished round, and clear_round drops what is still parked for that
\* round.  The model runs the rounds up to LastRound.
NextRound ==
    /\ pc = "done" /\ CurRound < LastRound
    /\ round_update' = [round |-> CurRound + 1]
    /\ pc' = "running"
    /\ iteration' = 0 /\ step' = "Proposal" /\ stage' = "entry"
    /\ timeout' = 0 /\ deadline_fired' = FALSE
    /\ v_aggr' = EmptyAggr /\ r_aggr' = EmptyAggr /\ v_curr_step' = 0
    /\ reg' = EmptyReg
    /\ committees' = derive_committees(EmptyCommittees, 0)
    /\ future_msgs' = clear_round(future_msgs, CurRound)
    /\ timeouts' = BaseTimeout
    /\ log' = <<>>
    /\ step_out' = EmptyMsg
    /\ validation_result' = [i \in Iters |-> "Pending"]
    /\ UNCHANGED <<delivered, quorum_ch, reduction_vars>>

\* The round task is aborted: no step output is produced and the round state
\* is discarded.
Cancel ==
    /\ pc = "running"
    /\ UNCHANGED <<round_update, reduction_vars>>
    /\ pc' = "cancelled"
    /\ iteration' = 0 /\ step' = "Proposal" /\ stage' = "entry"
    /\ timeout' = 0 /\ deadline_fired' = FALSE /\ delivered' = 0
    /\ v_aggr' = EmptyAggr /\ r_aggr' = EmptyAggr /\ v_curr_step' = 0
    /\ reg' = EmptyReg /\ committees' = EmptyCommittees /\ future_msgs' = EmptyQueue
    /\ timeouts' = BaseTimeout /\ quorum_ch' = <<>> /\ log' = <<>>
    /\ step_out' = EmptyMsg
    /\ validation_result' = [i \in Iters |-> "Pending"]

\* One round in full: every order of up to MaxMsgs receives, receive errors,
\* deadlines and a cancellation, until the round ends.  What follows the
\* end of a round is explored by RoundsSpec.
Next ==
    \/ HandleFutureMsgs
    \/ RecvMsg
    \/ RecvErr
    \/ DeadlineElapse
    \/ TimeoutEvent
    \/ NextStep
    \/ Cancel

Spec == Init /\ [][Next]_vars

\* The round when the inbound channel delivers at most MaxFew messages and
\* never fails: every step of every iteration is entered (by timeout when
\* nothing ends it earlier) and process_inbound_msg runs in each of them.
RecvFew ==
    /\ delivered < MaxFew
    /\ RecvMsg

FewNext ==
    \/ HandleFutureMsgs
    \/ RecvFew
    \/ DeadlineElapse
    \/ TimeoutEvent
    \/ NextStep

FewSpec == Init /\ [][FewNext]_vars

\* Consecutive rounds: the inbound channel delivers at most MaxFew messages
\* over the whole run and never fails; a round that ended is followed by
\* the next one.
RoundsNext ==
    \/ HandleFutureMsgs
    \/ RecvFew
    \/ DeadlineElapse
    \/ TimeoutEvent
    \/ NextStep
    \/ NextRound

RoundsSpec == Init /\ [][RoundsNext]_vars

\* A node configured with base timeouts of zero: the deadline the event loop
\* computes at its entry is the entry instant itself, and has passed when
\* the loop polls for the first time.
ZeroTimeout == [n \in StepNames |-> 0]
LateInit ==
    /\ round_update = [round |-> FirstRound]
    /\ pc = "running"
    /\ iteration = 0
    /\ step = "Proposal"
    /\ stage = "entry"
    /\ timeout = 0
    /\ deadline_fired = FALSE
    /\ delivered = 0
    /\ v_aggr = EmptyAggr
    /\ r_aggr = EmptyAggr
    /\ v_curr_step = 0
    /\ reg = EmptyReg
    /\ committees = derive_committees(EmptyCommittees, 0)
    /\ future_msgs = EmptyQueue
    /\ timeouts = ZeroTimeout
    /\ quorum_ch = <<>>
    /\ log = <<>>
    /\ step_out = EmptyMsg
    /\ validation_result = [i \in Iters |-> "Pending"]
    /\ reduction = ReductionNew
    /\ db = {}
    /\ reduction_out = ReductionPending

LateNext ==
    \/ HandleFutureMsgs
    \/ RecvFew
    \/ TimeoutEvent
    \/ NextStep

LateSpec == LateInit /\ [][LateNext]_vars

\* The Validation step of iteration 0 for every committee sortition can draw
\* from the provisioners a and b with weights up to MaxPower.  The step is
\* entered after the Proposal step timed out.
Committees ==
    UNION {[S -> 1 .. MaxPower] : S \in SUBSET Signers \ {{}}}
DrawnInit ==
    LET st0 == [v_aggr |-> EmptyAggr, r_aggr |-> EmptyAggr, v_curr_step |-> 0,
                reg |-> EmptyReg, future_msgs |-> EmptyQueue,
                timeouts |-> BaseTimeout, quorum_ch |-> <<>>, log |-> <<>>]
        r == process_timeout_event(st0, "Proposal")
    IN /\ round_update = [round |-> FirstRound]
       /\ pc = "running"
       /\ iteration = 0
       /\ step = "Validation"
       /\ stage = "entry"
       /\ timeout = 0
       /\ deadline_fired = FALSE
       /\ delivered = 0
       /\ v_aggr = EmptyAggr
       /\ r_aggr = EmptyAggr
       /\ v_curr_step = validation_reset(to_step("Validation", 0))
       /\ reg = EmptyReg
       /\ \E c \in Committees :
             committees =
                [sid \in iteration_committees(0) |->
                    IF sid = to_step("Validation", 0) THEN c
                    ELSE sortition(sid)]
       /\ future_msgs = EmptyQueue
       /\ timeouts = r.st.timeouts
       /\ quorum_ch = <<>>
       /\ log = <<>>
       /\ step_out = r.msg
       /\ validation_result = [i \in Iters |-> "Pending"]
       /\ reduction = ReductionNew
       /\ db = {}
       /\ reduction_out = ReductionPending

DrawnNext ==
    \/ HandleFutureMsgs
    \/ RecvMsg
    \/ DeadlineElapse
    \/ TimeoutEvent

DrawnSpec == DrawnInit /\ [][DrawnNext]_vars

\* The first step of iteration 0 run by the Reduction handler, for every
\* drawn committee, every outcome of the Proposal step (no candidate in
\* time, or a candidate with hash A or with another hash) and a database
\* that has the candidate block of A or not.
ReductionMsgs ==
    {Msg(CurRound, 0, "Validation", pk, tp, h, TipHash, TRUE) :
        pk \in Signers, tp \in {"Reduction", "Empty"}, h \in Hashes}
    \cup {Msg(CurRound, 0, "Validation", "a", "Quorum", "A", TipHash, TRUE)}

ReductionInit ==
    LET st0 == [v_aggr |-> EmptyAggr, r_aggr |-> EmptyAggr, v_curr_step |-> 0,
                reg |-> EmptyReg, future_msgs |-> EmptyQueue,
                timeouts |-> BaseTimeout, quorum_ch |-> <<>>, log |-> <<>>]
        r == process_timeout_event(st0, "Proposal")
    IN \E proposed \in {ZeroHash, "A", OtherHash} :
          /\ round_update = [round |-> FirstRound]
          /\ pc = "running"
          /\ iteration = 0
          /\ step = "Validation"
          /\ stage = "loop"
          /\ timeout = BaseTimeout["Validation"]
          /\ deadline_fired = FALSE
          /\ delivered = IF proposed = ZeroHash THEN 0 ELSE 1
          /\ v_aggr = EmptyAggr
          /\ r_aggr = EmptyAggr
          /\ v_curr_step = validation_reset(to_step("Validation", 0))
          /\ reg = EmptyReg
          /\ \E c \in Committees :
                committees =
                   [sid \in iteration_committees(0) |->
                       IF sid = to_step("Validation", 0) THEN c
                       ELSE sortition(sid)]
          /\ future_msgs = EmptyQueue
          /\ timeouts = IF proposed = ZeroHash THEN r.st.timeouts
                        ELSE BaseTimeout
          /\ quorum_ch = <<>>
          /\ log = <<>>
          /\ step_out = IF proposed = ZeroHash THEN r.msg
                        ELSE OutMsg("Candidate", 0, proposed, "NoQuorum",
                                    DefaultSV, DefaultSV)
          /\ validation_result = [i \in Iters |-> "Pending"]
          /\ reduction =
                [aggr |-> EmptyAggr,
                 candidate |-> IF proposed = ZeroHash THEN DefaultBlock
                               ELSE Block(proposed, "local")]
          /\ db \in SUBSET {"A"}
          /\ reduction_out = ReductionPending

\* The event loop hands a message to Reduction::collect.
ReductionCollect ==
    /\ reduction_out.kind # "FinalResult"
    /\ \E msg \in ReductionMsgs :
          \E c \in {reduction_collect(
                        reduction, db, msg,
                        get_committee(committees, to_step(step, iteration)))} :
             /\ reduction' = c.red
             /\ reduction_out' = c.out
    /\ log' = <<"collect">>
    /\ UNCHANGED <<round_update, pc, iteration, step, stage, timeout,
                   deadline_fired, delivered, v_aggr, r_aggr, v_curr_step,
                   reg, committees, future_msgs, timeouts, quorum_ch,
                   step_out, validation_result, db>>

\* The step's deadline passes: Reduction::handle_timeout.
ReductionTimeout ==
    /\ reduction_out.kind # "FinalResult"
    /\ reduction_out' = reduction_handle_timeout(reduction)
    /\ log' = <<"handle_timeout">>
    /\ UNCHANGED <<round_update, pc, iteration, step, stage, timeout,
                   deadline_fired, delivered, v_aggr, r_aggr, v_curr_step,
                   reg, committees, future_msgs, timeouts, quorum_ch,
                   step_out, validation_result, reduction, db>>

ReductionNext ==
    \/ ReductionCollect
    \/ ReductionTimeout

ReductionSpec == ReductionInit /\ [][ReductionNext]_vars

\* =================================================================== claims
VSid(i) == to_step("Validation", i)
RSid(i) == to_step("Ratification", i)
Threshold(sid) == quorum_threshold(sortition(sid))
\* Power of a set of signers in the committee of a step.
PowerOf(sid, bitset) == SumPower(sortition(sid), bitset)
\* Positions of the Quorum messages for (iteration, hash) on the quorum channel.
QuorumMsgsFor(i, h) ==
    {n \in 1 .. Len(quorum_ch) :
        quorum_ch[n].iteration = i /\ quorum_ch[n].hash = h}
InLog(e) == \E n \in 1 .. Len(log) : log[n] = e

\* C1: for every (iteration, hash) of the round, at most one Quorum message
\* is ever on the quorum channel, whatever the order of present and past
\* votes, including votes arriving after the certificate was complete.
C1_AtMostOneQuorum ==
    \A i \in Iters, h \in Hashes : Cardinality(QuorumMsgsFor(i, h)) <= 1

\* A Quorum message for (0, A) was sent and a further vote for A was
\* collected afterwards: a tally holds more signers than the message.
C1_Witness ==
    \E n \in QuorumMsgsFor(0, "A") :
        \/ r_aggr[<<RSid(0), "A">>].bitset # quorum_ch[n].ratification.bitset
        \/ v_aggr[<<VSid(0), "A">>].bitset # quorum_ch[n].validation.bitset

\* C2: a Quorum message leaves add_step_votes only when, for its iteration
\* and hash, a Validation and a Ratification StepVotes are recorded, both
\* recorded with quorum_reached, and the hash is not the zero hash; the
\* message carries that iteration, that hash and the two recorded StepVotes.
C2_Returned(m, r) ==
    LET cert == r[<<m.iteration, m.hash>>]
    IN /\ m.hash # ZeroHash
       /\ cert.has_validation /\ cert.has_ratification
       /\ cert.quorum_reached_validation /\ cert.quorum_reached_ratification
       /\ m.validation = cert.validation
       /\ m.ratification = cert.ratification
       /\ cert.returned
C2_QuorumOnlyWhenBothReached ==
    [][/\ Len(quorum_ch') > Len(quorum_ch)
          => /\ quorum_ch'[Len(quorum_ch')].topic = "Quorum"
             /\ C2_Returned(quorum_ch'[Len(quorum_ch')], reg')
       /\ (pc' = "running" /\ stage' = "returned"
           /\ step_out'.topic = "Quorum")
          => C2_Returned(step_out', reg')
       /\ \A k \in RegKeys :
             reg'[k].returned =>
                /\ k[2] # ZeroHash
                /\ reg'[k].quorum_reached_validation
                /\ reg'[k].quorum_reached_ratification]_vars

\* The registry returned the Quorum message of (0, A) and it was sent.
C2_Witness ==
    /\ reg[<<0, "A">>].returned
    /\ QuorumMsgsFor(0, "A") # {}
    /\ InLog("quorum_send")

\* C3: whenever, in one iteration, the Validation votes for a non-zero hash
\* and the Ratification votes for the same hash both reach quorum, exactly
\* one Quorum message for (iteration, hash) carrying two quorum StepVotes is
\* on the quorum channel, or it is the output the Ratification step just
\* returned and the driver sends next.
BothQuorums(i, h) ==
    /\ h # ZeroHash
    /\ v_aggr[<<VSid(i), h>>].power >= Threshold(VSid(i))
    /\ r_aggr[<<RSid(i), h>>].power >= Threshold(RSid(i))
FullCertificate(m, i, h) ==
    /\ m.topic = "Quorum" /\ m.iteration = i /\ m.hash = h
    /\ PowerOf(VSid(i), m.validation.bitset) >= Threshold(VSid(i))
    /\ PowerOf(RSid(i), m.ratification.bitset) >= Threshold(RSid(i))
C3_QuorumDelivered ==
    [](\A i \in Iters, h \in Hashes :
           BothQuorums(i, h) =>
              \/ /\ Cardinality(QuorumMsgsFor(i, h)) = 1
                 /\ \A n \in QuorumMsgsFor(i, h) :
                       FullCertificate(quorum_ch[n], i, h)
              \/ /\ QuorumMsgsFor(i, h) = {}
                 /\ pc = "running" /\ stage = "returned"
                 /\ step = "Ratification" /\ iteration = i
                 /\ FullCertificate(step_out, i, h))

\* The certificate of (0, A) was completed by a past Validation vote, after
\* the Ratification quorum, and delivered.
C3_Witness ==
    /\ BothQuorums(0, "A")
    /\ Cardinality(QuorumMsgsFor(0, "A")) = 1
    /\ validation_result[0] = "NoQuorum"
    /\ iteration > 0

\* C4: a signer contributes at most once to a tally: every tally holds only
\* committee members, each with exactly one aggregated signature, and
\* collect_vote for a non-member or for a signer whose bit is set returns
\* none and leaves every entry as it was.
C4_NoDoubleCount ==
    [](\A ag \in {v_aggr, r_aggr} :
           /\ \A k \in AggrKeys :
                 /\ ag[k].bitset \subseteq DOMAIN sortition(k[1])
                 /\ \A pk \in Signers :
                       ag[k].signature[pk] = IF pk \in ag[k].bitset THEN 1 ELSE 0
           /\ \A msg \in VoteMsgs :
                 LET committee == sortition(get_step(msg))
                 IN (\/ ~is_member(committee, msg.signer)
                     \/ msg.signer \in ag[<<get_step(msg), msg.hash>>].bitset)
                    => LET r == collect_vote(ag, committee, msg)
                       IN ~r.some /\ r.aggr = ag)

\* After a's vote made the Validation step Ready, a second delivery was
\* processed as a past event and left a's bit the only one set.
C4_Witness ==
    /\ delivered = 2
    /\ validation_result[0] = "ValidQuorum"
    /\ log = <<"PastEvent", "send", "collect_from_past">>
    /\ \A k \in AggrKeys :
          /\ r_aggr[k].bitset = {}
          /\ v_aggr[k].bitset = IF k = <<VSid(0), "A">> THEN {"a"} ELSE {}

\* C5: in every tally the accumulated power is the sum of the committee
\* power of the signers whose bit is set, is at most the committee's total
\* power, and never decreases while the round runs.
C5_Tally(ag) ==
    \A k \in AggrKeys :
        /\ ag[k].power = PowerOf(k[1], ag[k].bitset)
        /\ ag[k].power <= total_power(sortition(k[1]))
\* One step of a tally: an entry that changed still holds the sum of its set
\* bits, within the total, and did not lose power.
C5_TallyStep(old, new) ==
    \A k \in AggrKeys :
        new[k] # old[k]
        => /\ new[k].power = PowerOf(k[1], new[k].bitset)
           /\ new[k].power <= total_power(sortition(k[1]))
           /\ pc' # "cancelled" => new[k].power > old[k].power
C5_PowerIsSumAndMonotonic ==
    /\ C5_Tally(v_aggr) /\ C5_Tally(r_aggr)
    /\ [][C5_TallyStep(v_aggr, v_aggr') /\ C5_TallyStep(r_aggr, r_aggr')]_vars

\* Every member of iteration 0's Validation committee voted for A: the
\* tally holds the committee's total power.
C5_Witness ==
    /\ v_aggr[<<VSid(0), "A">>].bitset = {"a", "b"}
    /\ v_aggr[<<VSid(0), "A">>].power = total_power(sortition(VSid(0)))

\* C6: quorum is reported exactly when the accumulated power of the voted
\* hash is at least the committee's threshold: the registry's quorum flags
\* agree with the tallies, a Validation step still looping has no non-zero
\* hash at the threshold, and one that returned a quorum has its hash at or
\* above it.
C6_QuorumAtThreshold ==
    /\ \A i \in Iters, h \in Hashes :
          /\ reg[<<i, h>>].has_validation
             => (reg[<<i, h>>].quorum_reached_validation
                 <=> v_aggr[<<VSid(i), h>>].power >= Threshold(VSid(i)))
          /\ reg[<<i, h>>].has_ratification
             => (reg[<<i, h>>].quorum_reached_ratification
                 <=> r_aggr[<<RSid(i), h>>].power >= Threshold(RSid(i)))
    /\ (pc = "running" /\ step = "Validation" /\ stage = "loop")
       => \A h \in Hashes \ {ZeroHash} :
             v_aggr[<<VSid(iteration), h>>].power < Threshold(VSid(iteration))
    /\ (pc = "running" /\ step = "Validation" /\ stage = "returned"
        /\ step_out.quorum # "NoQuorum")
       => v_aggr[<<VSid(iteration), step_out.hash>>].power
             >= Threshold(VSid(iteration))

\* In the last iteration a's vote left A one unit below the threshold and
\* b's vote brought it to exactly the threshold: the step returned Valid.
C6_Witness ==
    /\ pc = "running" /\ step = "Validation" /\ stage = "returned"
    /\ iteration = MaxIter
    /\ step_out.quorum = "ValidQuorum"
    /\ v_aggr[<<VSid(MaxIter), "A">>].bitset = {"a", "b"}
    /\ v_aggr[<<VSid(MaxIter), "A">>].power = Threshold(VSid(MaxIter))
    /\ power(sortition(VSid(MaxIter)), "a") = Threshold(VSid(MaxIter)) - 1

\* C7 as stated: no Quorum message is ever emitted for the zero hash or for
\* an iteration whose Validation result was Nil or NoQuorum.
C7_NoQuorumAfterNilOrNoQuorum ==
    \A n \in 1 .. Len(quorum_ch) :
        /\ quorum_ch[n].hash # ZeroHash
        /\ validation_result[quorum_ch[n].iteration]
              \notin {"NilQuorum", "NoQuorum"}

\* C7, amended: zero-hash and real-hash votes are tallied apart (a quorum
\* flag of a hash is carried by the signers of that hash alone), a
\* Validation step outputs Valid only for a non-zero hash and Nil only for
\* the zero hash, and every Quorum message is for a non-zero hash whose own
\* Validation and Ratification signers each reach the threshold.
C7_ZeroHashSegregated ==
    [](/\ \A i \in Iters, h \in Hashes :
             /\ reg[<<i, h>>].quorum_reached_validation
                => PowerOf(VSid(i), v_aggr[<<VSid(i), h>>].bitset)
                      >= Threshold(VSid(i))
             /\ reg[<<i, h>>].quorum_reached_ratification
                => PowerOf(RSid(i), r_aggr[<<RSid(i), h>>].bitset)
                      >= Threshold(RSid(i))
       /\ (pc = "running" /\ step = "Validation" /\ stage = "returned")
          => /\ step_out.quorum = "ValidQuorum"
                => /\ step_out.hash # ZeroHash
                   /\ PowerOf(VSid(iteration), step_out.validation.bitset)
                         >= Threshold(VSid(iteration))
             /\ step_out.quorum = "NilQuorum" => step_out.hash = ZeroHash
             /\ (step_out.hash = ZeroHash /\ InLog("collect:Ready"))
                => /\ step_out.quorum = "NilQuorum"
                   /\ v_aggr[<<VSid(iteration), ZeroHash>>].power
                         >= Threshold(VSid(iteration))
       /\ \A n \in 1 .. Len(quorum_ch) :
             LET m == quorum_ch[n]
             IN /\ m.hash # ZeroHash
                /\ PowerOf(VSid(m.iteration),
                           v_aggr[<<VSid(m.iteration), m.hash>>].bitset)
                      >= Threshold(VSid(m.iteration))
                /\ PowerOf(RSid(m.iteration),
                           r_aggr[<<RSid(m.iteration), m.hash>>].bitset)
                      >= Threshold(RSid(m.iteration)))

\* Iteration 0's Validation step held votes for A and for the zero hash and
\* ended with a nil quorum.
C7_Witness ==
    /\ v_aggr[<<VSid(0), "A">>].bitset # {}
    /\ v_aggr[<<VSid(0), ZeroHash>>].power >= Threshold(VSid(0))
    /\ validation_result[0] = "NilQuorum"

\* C8: the first Ready a handler returns ends the step: Ready is the last
\* call of its run, the loop has returned its message, and until the driver
\* starts the next step no message is received, validated, collected,
\* re-broadcast, parked or processed as a past event.
C8_FirstReadyWins ==
    [][/\ \A n \in 1 .. Len(log') :
             log'[n] = "collect:Ready"
             => /\ n = Len(log')
                /\ pc' = "running" /\ stage' = "returned"
       /\ (pc = "running" /\ stage = "returned" /\ pc' = "running")
          => /\ log' = <<>>
             /\ delivered' = delivered
             /\ v_aggr' = v_aggr /\ r_aggr' = r_aggr /\ reg' = reg
             /\ future_msgs' = future_msgs]_vars

\* An inbound message made collect return Ready and the step returned.
C8_Witness ==
    /\ pc = "running" /\ stage = "returned"
    /\ log = <<"Ok", "send", "collect:Ready">>
    /\ delivered > 0

\* C9: the event loop leaves the loop only when collect returned Ready, when
\* the deadline fired and the timeout was handled, or when the round was
\* cancelled; a run that ended in a rejection, a collect error, a receive
\* error or a failed send leaves it waiting for the next message.
C9_LoopEndsOnlyOnReadyTimeoutCancel ==
    [][(pc = "running" /\ stage = "loop")
       => /\ stage' # "loop"
             => \/ pc' = "cancelled"
                \/ /\ stage' = "returned"
                   /\ log'[Len(log')] = "collect:Ready"
                \/ /\ stage' = "returned" /\ deadline_fired
                   /\ log' = <<"on_timeout_event", "handle_timeout">>
          /\ (pc' = "running" /\ log' # <<>>
              /\ log'[Len(log')] \in
                    {"InvalidMsgType", "InvalidSignature",
                     "NotCommitteeMember", "InvalidPrevBlockHash",
                     "collect:Err", "recv_err", "send_failed",
                     "collect:Pending", "put_event", "collect_from_past",
                     "quorum_send", "past_other_round"})
             => stage' = "loop"]_vars

\* A valid present message could not be re-published and collect then
\* failed on it; the loop is still running.
C9_Witness ==
    /\ pc = "running" /\ stage = "loop"
    /\ log = <<"Ok", "send_failed", "collect:Err">>

\* C10 as stated: once the deadline of the step has fired, no inbound
\* message is received or processed any more.
C10_NoMessageAfterDeadline ==
    [][(pc = "running" /\ deadline_fired /\ pc' = "running")
       => delivered' = delivered]_vars

\* Results of is_valid, as the first entry of the run of an inbound message.
IsValidResults ==
    {"Ok", "InvalidMsgType", "PastEvent", "InvalidPrevBlockHash",
     "NotCommitteeMember", "InvalidSignature", "FutureEvent"}
CollectCalls == {"collect:Ready", "collect:Pending", "collect:Err"}

\* C11 as stated: in a step whose deadline has already passed when its
\* event loop is entered (the timeout read at entry is zero, so the deadline
\* is the entry instant), no handler run of the event loop calls collect,
\* and the step ends by handle_timeout.
C11_NoCollectWhenDeadlinePassedAtEntry ==
    (/\ pc = "running" /\ stage \in {"loop", "returned"}
     /\ timeout = 0 /\ deadline_fired)
    => /\ \A n \in 1 .. Len(log) : log[n] \notin CollectCalls
       /\ stage = "returned" => InLog("handle_timeout")

\* C12 as stated: with the deadline expired, the event loop takes the
\* timeout branch: no message is passed to is_valid or collect.
C12_TimerWinsTie ==
    [][(pc = "running" /\ stage = "loop" /\ deadline_fired /\ pc' = "running")
       => /\ log' = <<"on_timeout_event", "handle_timeout">>
          /\ stage' = "returned"]_vars

\* The step-id and the committee of the step being run.
CurSid == to_step(step, iteration)
CurCommittee == sortition(CurSid)
\* is_valid as the event loop calls it in the current state.
IsValidNow(msg) ==
    is_valid(step, msg, iteration, step, CurCommittee, committees)

\* C13: a message is_valid accepts is Present (round, iteration and step of
\* the context), carries the round's previous-block hash and is signed by a
\* member of the current step's committee; so only votes of current
\* committee members are in the tallies of the step being run.
C13_ValidIsPresentMember ==
    [](pc = "running"
       => /\ \A msg \in InboundMsgs :
                IsValidNow(msg) = "Ok"
                => /\ msg.round = CurRound
                   /\ msg.iteration = iteration
                   /\ msg.step = step
                   /\ msg.prev_block_hash = TipHash
                   /\ is_member(CurCommittee, msg.signer)
          /\ step # "Proposal"
             => \A h \in Hashes :
                   /\ v_aggr[<<CurSid, h>>].bitset \subseteq DOMAIN CurCommittee
                   /\ r_aggr[<<CurSid, h>>].bitset \subseteq DOMAIN CurCommittee)

\* The Validation step accepted b's vote for A and collected it.
C13_Witness ==
    /\ pc = "running" /\ step = "Validation" /\ stage = "loop"
    /\ log = <<"Ok", "send", "collect:Pending">>
    /\ v_aggr[<<CurSid, "A">>].bitset = {"b"}

\* C14: a run of process_inbound_msg that is_valid answered with FutureEvent
\* appends the message to the future queue under (msg.round, msg.step-id)
\* and does nothing else: the loop keeps running, nothing is re-broadcast,
\* collected or handed to past-event processing, and the aggregators, the
\* registry and the quorum channel are as they were.
C14_FutureIsParkedOnly ==
    [][(delivered' = delivered + 1 /\ log' # <<>> /\ log'[1] = "FutureEvent")
       => /\ log' = <<"FutureEvent", "put_event">>
          /\ stage' = "loop" /\ step_out' = step_out
          /\ v_aggr' = v_aggr /\ r_aggr' = r_aggr /\ reg' = reg
          /\ quorum_ch' = quorum_ch /\ timeouts' = timeouts
          /\ \E msg \in InboundMsgs :
                /\ IsValidNow(msg) = "FutureEvent"
                /\ LET key == <<msg.round, get_step(msg)>>
                       old == future_msgs[key]
                       new == future_msgs'[key]
                   IN /\ new # <<>> /\ new[Len(new)] = msg
                      /\ Len(new) = Len(old) + 1 \/ Len(new) = FutureCap
                      /\ \A k \in QueueKeys \ {key} :
                            future_msgs'[k] = future_msgs[k]]_vars

\* A vote for the last iteration arrived during iteration 0 and is parked
\* under its own (round, step-id).
C14_Witness ==
    /\ pc = "running" /\ stage = "loop" /\ iteration = 0
    /\ log = <<"FutureEvent", "put_event">>
    /\ future_msgs[<<CurRound, VSid(MaxIter)>>]
          = <<Vote(MaxIter, "Validation", "b", "A")>>

\* The queue key drained at the entry of the current step, and the entry
\* action itself (handle_future_msgs ran and the step went on).
DrainedKey == <<CurRound, CurSid>>
StepEntered ==
    /\ pc = "running" /\ stage = "entry"
    /\ pc' = "running" /\ stage' # "entry"
\* The vote of msg is in the tally of its step and hash.
Counted(va, ra, msg) ==
    IF msg.topic = "Validation"
    THEN msg.signer \in va[<<get_step(msg), msg.hash>>].bitset
    ELSE IF msg.topic = "Ratification"
    THEN msg.signer \in ra[<<get_step(msg), msg.hash>>].bitset
    ELSE TRUE

\* C15 as stated: every message parked for the step being entered that is
\* valid in the step's context is passed to collect at the entry, so its
\* vote is in the step's tally.
C15_EveryParkedVoteCounts ==
    [][StepEntered
       => \A n \in 1 .. Len(future_msgs[DrainedKey]) :
             IsValidNow(future_msgs[DrainedKey][n]) = "Ok"
             => Counted(v_aggr', r_aggr', future_msgs[DrainedKey][n])]_vars

\* C15, amended: at the entry of a step its queue entry is drained whole and
\* no other entry is touched; the drained messages are re-validated in
\* order and each valid one is re-broadcast and collected, up to the first
\* one that makes collect return Ready: that one ends the step and the
\* messages drained after it are dropped uncollected.
C15_ParkedVotesCountUntilReady ==
    [][StepEntered
       => /\ future_msgs'[DrainedKey] = <<>>
          /\ \A k \in QueueKeys \ {DrainedKey} :
                future_msgs'[k] = future_msgs[k]
          /\ log'[1] = "drain_events"
          /\ \A n \in 1 .. Len(future_msgs[DrainedKey]) :
                LET q == future_msgs[DrainedKey]
                IN IsValidNow(q[n]) = "Ok"
                   => \/ /\ Counted(v_aggr', r_aggr', q[n])
                         /\ \E i \in 1 .. Len(log') :
                               log'[i] \in {"send", "send_failed"}
                      \/ /\ stage' = "returned"
                         /\ log'[Len(log')] = "collect:Ready"
                         /\ \E m \in 1 .. (n - 1) :
                               /\ IsValidNow(q[m]) = "Ok"
                               /\ Counted(v_aggr', r_aggr', q[m])]_vars

\* b's Validation vote, parked during the Proposal step, was drained at the
\* entry of the Validation step, re-broadcast and collected.
C15_Witness ==
    /\ pc = "running" /\ step = "Validation" /\ stage = "loop"
    /\ log = <<"drain_events", "Ok", "send", "collect:Pending">>
    /\ v_aggr[<<CurSid, "A">>].bitset = {"b"}
    /\ future_msgs[DrainedKey] = <<>>

\* C16: drain_events removes what it returns: for the queue of every
\* reachable state and every key that holds messages (and the key of the
\* step being run), a drain returns the stored messages, a second drain
\* right after it returns nothing, and neither changes another key.
C16_DrainTwice(q, k) ==
    LET d1 == drain_events(q, k[1], k[2])
        d2 == drain_events(d1.queue, k[1], k[2])
    IN /\ d1.msgs = q[k]
       /\ d2.msgs = <<>>
       /\ d2.queue = d1.queue
       /\ \A k2 \in QueueKeys \ {k} : d1.queue[k2] = q[k2]
C16_DrainIdempotent ==
    [](\A k \in QueueKeys :
           (future_msgs[k] # <<>> \/ k = DrainedKey)
           => C16_DrainTwice(future_msgs, k))

\* The Validation step drained a parked vote at its entry while a vote for
\* the last iteration stays parked under its own key.
C16_Witness ==
    /\ pc = "running" /\ step = "Validation" /\ iteration = 0
    /\ Len(log) > 1 /\ log[1] = "drain_events"
    /\ future_msgs[DrainedKey] = <<>>
    /\ future_msgs[<<CurRound, VSid(MaxIter)>>] # <<>>

C18_PutOnFull(q, k, msg) ==
    LET new == put_event(q, k[1], k[2], msg)[k]
    IN /\ Len(new) = FutureCap
       /\ new[FutureCap] = msg
       /\ \A n \in 1 .. (FutureCap - 1) : new[n] = q[k][n + 1]
C18_QueueCapped ==
    [](\A k \in QueueKeys :
           /\ Len(future_msgs[k]) <= FutureCap
           /\ Len(future_msgs[k]) = FutureCap
              => \A msg \in InboundMsgs :
                    (msg.round = k[1] /\ get_step(msg) = k[2])
                    => C18_PutOnFull(future_msgs, k, msg))

\* After three receives in the Proposal step the key of the Validation step
\* is full, holding b's vote and then a's: the next put on it must drop b's.
C18_Witness ==
    /\ pc = "running" /\ step = "Proposal" /\ iteration = 0
    /\ delivered = FutureCap + 1
    /\ log = <<"FutureEvent", "put_event">>
    /\ future_msgs[<<CurRound, VSid(0)>>]
          = <<Vote(0, "Validation", "b", "A"), Vote(0, "Validation", "a", "A")>>

\* C19: a run of the event loop on a Past message never ends the step: the
\* loop is still waiting afterwards, also when the past vote completed a
\* certificate, whose Quorum message is then the last one on the quorum
\* channel.
C19_PastNeverEndsStep ==
    (pc = "running" /\ log # <<>> /\ log[1] = "PastEvent")
    => /\ stage = "loop"
       /\ \A n \in 1 .. Len(log) : log[n] \notin CollectCalls
       /\ log[Len(log)] = "quorum_send"
          => /\ quorum_ch # <<>>
             /\ quorum_ch[Len(quorum_ch)].topic = "Quorum"
             /\ step_out.topic # "Quorum"

\* A past vote completed the certificate of (0, A): the Quorum message was
\* sent on the quorum channel and the loop goes on.
C19_Witness ==
    /\ pc = "running" /\ stage = "loop"
    /\ log = <<"PastEvent", "send", "collect_from_past", "quorum_send">>
    /\ QuorumMsgsFor(0, "A") # {}

\* A message that is valid on its own terms: of the current round, on the
\* round's tip, signed by a member of the committee of its own step, and
\* accepted by the payload verification of that step's phase.
ValidForGossip(msg) ==
    /\ msg.round = CurRound
    /\ msg.prev_block_hash = TipHash
    /\ is_member(sortition(get_step(msg)), msg.signer)
    /\ verify(msg.step, msg) = "Ok"

\* C20 as stated: whatever message the event loop receives next, if the run
\* publishes it on the outbound channel then the message is valid.
C20_OnlyValidMessagesSent ==
    (pc = "running" /\ stage = "loop" /\ delivered < MaxMsgs)
    => \A msg \in InboundMsgs, arm \in Arms :
          LET r == process_inbound_msg(St, iteration, step, committees,
                                       msg, TRUE, arm)
          IN (\E n \in 1 .. Len(r.st.log) : r.st.log[n] = "send")
             => ValidForGossip(msg)

\* C21: a failed send on the outbound channel changes nothing but the log:
\* it is never the last call of a run, a valid present message is still
\* passed to collect right after it, a past message still reaches
\* collect_past_event, and the step goes on waiting for inbound messages
\* unless that collect returned Ready.
C21_FailedSendNeverBlocks ==
    pc = "running"
    => \A n \in 1 .. Len(log) :
          log[n] = "send_failed"
          => /\ 1 < n /\ n < Len(log)
             /\ log[n - 1] \in {"Ok", "PastEvent"}
             /\ log[n - 1] = "Ok" => log[n + 1] \in CollectCalls
             /\ log[n - 1] = "PastEvent"
                => \E m \in (n + 1) .. Len(log) : log[m] = "collect_from_past"
             /\ stage = "loop" \/ log[Len(log)] = "collect:Ready"

\* b's present Validation vote could not be re-published; it was collected
\* all the same and the loop waits for the next message.
C21_Witness ==
    /\ pc = "running" /\ step = "Validation" /\ stage = "loop"
    /\ log = <<"Ok", "send_failed", "collect:Pending">>
    /\ v_aggr[<<CurSid, "A">>].bitset = {"b"}
    /\ delivered < MaxMsgs

\* min(2 * t, timeout_max)
Doubled(t) == IF 2 * t > TimeoutMax THEN TimeoutMax ELSE 2 * t
\* The event loop took its timeout branch in this step.
TimedOut ==
    /\ pc = "running" /\ stage = "loop"
    /\ pc' = "running" /\ stage' = "returned"
    /\ log' # <<>> /\ log'[Len(log')] = "handle_timeout"

\* C22: every timeout of every step-name stays between its base value and
\* timeout_max; when a step ends by timeout, the timeout of its step-name
\* becomes min(2 * previous, timeout_max), and the update is made before
\* handle_timeout is called.
C22_TimeoutDoubledUpToCap ==
    /\ [](\A n \in StepNames :
             BaseTimeout[n] <= timeouts[n] /\ timeouts[n] <= TimeoutMax)
    /\ [][TimedOut
          => /\ log' = <<"on_timeout_event", "handle_timeout">>
             /\ timeouts'[step] = Doubled(timeouts[step])]_vars

\* The Validation step of iteration 0 timed out (40 became 60) and the one
\* of the last iteration timed out again: the timeout stays at the cap.
C22_Witness ==
    /\ pc = "running" /\ step = "Validation" /\ stage = "returned"
    /\ iteration = MaxIter /\ MaxIter > 0
    /\ validation_result[0] = "NoQuorum"
    /\ log = <<"on_timeout_event", "handle_timeout">>
    /\ step_out.quorum = "NoQuorum"
    /\ timeouts["Validation"] = TimeoutMax
    /\ Doubled(BaseTimeout["Validation"]) = TimeoutMax

\* The Validation step returned a nil quorum.
NilReady ==
    /\ pc = "running" /\ step = "Validation"
    /\ pc' = "running" /\ stage' = "returned"
    /\ log' # <<>> /\ log'[Len(log')] = "collect:Ready"
    /\ step_out'.quorum = "NilQuorum"

\* C23: timeouts are kept per step-name.  Every round starts with the three
\* base values, whatever the timeouts of the round before had become; while
\* a round runs a timeout changes only for the step-name of the step being
\* run, and only when that step ends by timeout (a step ending with a
\* Ready, and every other event, leaves the table as it is); the driver
\* carries the table from step to step, so the event loop of a later step
\* of the same step-name computes its deadline from the increased value.
C23_TimeoutsPerStepName ==
    /\ timeouts = BaseTimeout
    /\ [][CurRound' # CurRound => timeouts' = BaseTimeout]_vars
    /\ []((pc = "running" /\ iteration = 0 /\ step = "Proposal"
           /\ stage = "entry")
          => timeouts = BaseTimeout)
    /\ []((pc = "running" /\ stage = "loop") => timeout = timeouts[step])
    /\ [][(pc' # "cancelled" /\ CurRound' = CurRound)
          => \A n \in StepNames :
                timeouts'[n] # timeouts[n]
                => n = step /\ TimedOut]_vars

\* The second round starts with the base timeouts.  The first round received
\* one message, the Ratification vote that ended it, so its Proposal and
\* Validation steps had ended by timeout and raised their timeouts.
C23_Witness ==
    /\ CurRound = FirstRound + 1 /\ pc = "running"
    /\ iteration = 0 /\ step = "Proposal" /\ stage = "entry"
    /\ delivered = 1
    /\ timeouts = BaseTimeout
    /\ Doubled(BaseTimeout["Proposal"]) > BaseTimeout["Proposal"]
    /\ Doubled(BaseTimeout["Validation"]) > BaseTimeout["Validation"]

\* C24: while the round runs (and until its state is discarded) the cache
\* holds the committee of every step of every iteration started so far,
\* those of earlier iterations included, and the committee stored for a
\* step-id is the one sortition derives for it: whichever step looks a
\* step-id up (current step, future pre-verification, past-event
\* processing, catch-up voting), and whenever, it gets the same committee.
C24_CommitteesWrittenOnce ==
    pc \in {"running", "done"}
    => /\ DOMAIN committees
             = UNION {iteration_committees(i) : i \in 0 .. iteration}
       /\ \A sid \in DOMAIN committees :
             get_committee(committees, sid) = sortition(sid)

\* In the last iteration a past Validation vote of iteration 0 was collected
\* with the committee saved for that step, which differs from the one of
\* the last iteration's Validation step.
C24_Witness ==
    /\ pc = "running" /\ iteration = MaxIter /\ MaxIter > 0
    /\ log # <<>> /\ log[1] = "PastEvent" /\ InLog("collect_from_past")
    /\ v_aggr[<<VSid(0), "A">>].power = power(heavy_committee, "a")
    /\ get_committee(committees, VSid(0)) = heavy_committee
    /\ get_committee(committees, VSid(MaxIter)) = wide_committee
    /\ heavy_committee # wide_committee

\* A Validation vote of a committee member not yet in the tally of its hash
\* brings that hash to quorum when the tally's power plus the signer's
\* reaches the threshold.
BringsToQuorum(msg) ==
    LET e == v_aggr[<<CurSid, msg.hash>>]
    IN /\ is_member(CurCommittee, msg.signer)
       /\ msg.signer \notin e.bitset
       /\ e.power + power(CurCommittee, msg.signer) >= Threshold(CurSid)
\* The StepVotes of the tally of msg's hash once msg's signer is added.
StepVotesWith(msg) ==
    LET e == v_aggr[<<CurSid, msg.hash>>]
    IN [bitset |-> e.bitset \cup {msg.signer},
        signature |-> [e.signature EXCEPT ![msg.signer] = 1]]

\* C25: in every state of a running Validation step, collect on a valid
\* vote returns Ready(StepVotes, h, ValidQuorum) exactly when the vote
\* brings a non-zero hash h to quorum, Ready(StepVotes, zero, NilQuorum)
\* with the timeout-increase flag exactly when it brings the zero hash to
\* quorum, and Pending otherwise; and a Validation step that ended by
\* timeout has output (default StepVotes, zero hash, NoQuorum), whatever
\* votes are in its tallies.
C25_ValidationOutputFromVotes ==
    []((pc = "running" /\ step = "Validation")
       => /\ stage = "loop"
             => \A msg \in VoteMsgs :
                   IsValidNow(msg) = "Ok"
                   => LET out == validation_collect(St, msg, CurSid,
                                                    CurCommittee).out
                      IN IF BringsToQuorum(msg) /\ msg.hash # ZeroHash
                         THEN out = final_result(StepVotesWith(msg), msg.hash,
                                                 "ValidQuorum")
                         ELSE IF BringsToQuorum(msg)
                         THEN out = final_result_with_timeout(
                                        StepVotesWith(msg), ZeroHash, "NilQuorum")
                         ELSE out = Pending
          /\ (stage = "returned" /\ log[Len(log)] = "handle_timeout")
             => step_out = ValidationResult(DefaultSV, ZeroHash, "NoQuorum")
          /\ (stage = "returned" /\ log[Len(log)] = "collect:Ready")
             => /\ step_out.quorum
                      = IF step_out.hash = ZeroHash THEN "NilQuorum"
                        ELSE "ValidQuorum"
                /\ step_out.validation.bitset
                      = v_aggr[<<CurSid, step_out.hash>>].bitset
                /\ v_aggr[<<CurSid, step_out.hash>>].power >= Threshold(CurSid))

\* The Validation step of iteration 0 held b's vote for A (collect returned
\* Pending on it) when the deadline ended it with NoQuorum, the zero hash
\* and empty StepVotes.
C25_Witness ==
    /\ pc = "running" /\ step = "Validation" /\ stage = "returned"
    /\ iteration = 0
    /\ v_aggr[<<CurSid, "A">>].bitset = {"b"}
    /\ log = <<"on_timeout_event", "handle_timeout">>
    /\ step_out = ValidationResult(DefaultSV, ZeroHash, "NoQuorum")

\* C26 as stated: a Validation step whose zero-hash tally reaches the
\* threshold is over: its loop has returned (StepVotes of the zero hash,
\* zero hash, NilQuorum) as the step's output; the transition that returns
\* it doubles the Validation timeout up to the cap and leaves the other two
\* alone, as a deadline timeout does; and the Validation event loop of the
\* next iteration runs with the increased value.
C26_NilQuorumEndsStepAndBumps ==
    /\ []((pc = "running" /\ step = "Validation")
          => /\ v_aggr[<<CurSid, ZeroHash>>].power >= Threshold(CurSid)
                => /\ stage = "returned"
                   /\ log[Len(log)] = "collect:Ready"
                   /\ step_out
                         = ValidationResult(
                               [bitset |-> v_aggr[<<CurSid, ZeroHash>>].bitset,
                                signature |->
                                    v_aggr[<<CurSid, ZeroHash>>].signature],
                               ZeroHash, "NilQuorum")
             /\ (stage = "loop" /\ iteration > 0
                 /\ validation_result[iteration - 1] = "NilQuorum")
                => /\ timeout = timeouts["Validation"]
                   /\ timeout >= Doubled(BaseTimeout["Validation"]))
    /\ [][NilReady
          => timeouts' = [timeouts EXCEPT !["Validation"] = Doubled(@)]]_vars

\* No hash of iteration i's Validation step has reached the threshold.
NoValidationQuorum(i) ==
    \A h \in Hashes : v_aggr[<<VSid(i), h>>].power < Threshold(VSid(i))
\* A Validation step in which no hash has reached the threshold has not seen
\* collect return Ready, and if it is over it ended at the deadline with
\* NoQuorum.
C27_SplitEndsAtDeadline ==
    (pc = "running" /\ step = "Validation" /\ NoValidationQuorum(iteration))
    => /\ ~InLog("collect:Ready")
       /\ stage = "returned"
          => /\ log = <<"on_timeout_event", "handle_timeout">>
             /\ step_out = ValidationResult(DefaultSV, ZeroHash, "NoQuorum")

\* C27 as stated: a Validation step in which no hash reached the threshold
\* ends only at the deadline with NoQuorum, and no Quorum message is
\* emitted for the iteration of a step that ended so.
C27_NoQuorumForSplitIteration ==
    /\ C27_SplitEndsAtDeadline
    /\ \A i \in Iters, h \in Hashes :
          validation_result[i] = "NoQuorum" => QuorumMsgsFor(i, h) = {}

\* C27, amended: a Validation step in which no hash reached the threshold
\* ends only at the deadline with NoQuorum, and for as long as no hash of
\* the iteration's Validation tallies has reached the threshold (votes of
\* the step that arrive after it ended are still tallied) no Quorum message
\* of that iteration is sent or returned.
C27_NoQuorumWhileBelowThreshold ==
    /\ C27_SplitEndsAtDeadline
    /\ \A i \in Iters :
          NoValidationQuorum(i)
          => /\ \A h \in Hashes : QuorumMsgsFor(i, h) = {}
             /\ ~(pc = "running" /\ stage = "returned"
                  /\ step_out.topic = "Quorum" /\ step_out.iteration = i)

\* In the last iteration a's vote left A one unit below the threshold, no
\* other vote came, and the deadline ended the step with NoQuorum.
C27_Witness ==
    /\ pc = "running" /\ step = "Validation" /\ stage = "returned"
    /\ iteration = MaxIter
    /\ v_aggr[<<CurSid, "A">>].bitset = {"a"}
    /\ v_aggr[<<CurSid, "A">>].power = Threshold(CurSid) - 1
    /\ NoValidationQuorum(iteration)
    /\ step_out.quorum = "NoQuorum"
    /\ \A h \in Hashes : QuorumMsgsFor(iteration, h) = {}

\* Number of publications on the outbound channel attempted by the latest run.
Sends == Cardinality({n \in 1 .. Len(log) : log[n] \in {"send", "send_failed"}})
\* The latest run processed a past Candidate whose step-id precedes the
\* current one, the local node being a member of the next step's committee.
PastCandidateRun ==
    /\ pc = "running" /\ log # <<>> /\ log[1] = "PastEvent"
    /\ InLog("try_vote:Validation")

\* C28 as stated: the run of a past Candidate publishes, besides the
\* Candidate itself, a Validation vote for the step after the Candidate's
\* when the local node sits on that step's committee, and a Ratification
\* vote for the step after that when it is not beyond the current step and
\* the local node sits on its committee.
C28_CatchUpVotesEmitted ==
    PastCandidateRun
    => Sends = 1 + 1 + (IF InLog("try_vote:Ratification") THEN 1 ELSE 0)

\* C29: while the round runs the step-id of the step being run never goes
\* back and moves one step at a time (Proposal, Validation, Ratification of
\* an iteration, then Proposal of the next); the driver starts a step only
\* when the step before it has returned, and hands that step's output over
\* unchanged; after a Ratification step the round ends if the step yielded
\* a valid quorum (the Quorum message of a full certificate, or a
\* RatificationResult with ValidQuorum), and otherwise the iteration grows
\* by exactly one; the round ends in no other way.
C29_StepsInOrder ==
    [][(pc = "running" /\ pc' # "cancelled")
       => /\ CurSid' \in {CurSid, CurSid + 1}
          /\ CurSid' = CurSid + 1
             => /\ stage = "returned" /\ stage' = "entry"
                /\ pc' = "running"
                /\ step_out' = step_out
                /\ step' = step_name_of(CurSid + 1)
                /\ iteration' = IF step = "Ratification" THEN iteration + 1
                                ELSE iteration
          /\ (stage # "returned" \/ pc' = "done")
             => iteration' = iteration /\ step' = step
          /\ stage' = "entry" => CurSid' = CurSid + 1
          /\ (stage = "returned" /\ step = "Ratification" /\ vars' # vars)
             => IF step_out.quorum = "ValidQuorum"
                THEN pc' = "done"
                ELSE /\ pc' = "running" /\ iteration' = iteration + 1
                     /\ step' = "Proposal"
          /\ pc' = "done"
             => /\ stage = "returned" /\ step = "Ratification"
                /\ step_out.quorum = "ValidQuorum"
                /\ step_out.topic \in {"Quorum", "RatificationResult"}
                /\ step_out.hash # ZeroHash]_vars

\* Iteration 0 reached a Validation quorum but its Ratification step timed
\* out: the driver started iteration 1 with the empty output as input.
C29_Witness ==
    /\ pc = "running" /\ iteration = 1 /\ step = "Proposal"
    /\ stage = "entry"
    /\ validation_result[0] = "ValidQuorum"
    /\ step_out = EmptyMsg
    /\ quorum_ch = <<>>

\* C30: tallies are per step, so votes of one iteration never count in
\* another.  When a Validation step is entered the handler has been reset
\* to it and the tallies of that step are empty, whatever the earlier
\* iterations collected; a Validation quorum of an iteration is carried by
\* that iteration's tally alone; and for every iteration started so far the
\* registry still holds, per hash, the Validation StepVotes of that
\* iteration's tally.
C30_TalliesPerIteration ==
    pc = "running"
    => /\ (step = "Validation" /\ stage = "entry")
          => /\ v_curr_step = CurSid
             /\ \A h \in Hashes : v_aggr[<<CurSid, h>>] = EmptyEntry
       /\ (step = "Validation" /\ stage = "returned"
           /\ step_out.quorum \in {"ValidQuorum", "NilQuorum"})
          => /\ v_aggr[<<CurSid, step_out.hash>>].power >= Threshold(CurSid)
             /\ step_out.validation.bitset
                   = v_aggr[<<CurSid, step_out.hash>>].bitset
       /\ \A i \in 0 .. iteration, h \in Hashes :
             /\ reg[<<i, h>>].has_validation
                   <=> v_aggr[<<VSid(i), h>>].bitset # {}
             /\ reg[<<i, h>>].validation.bitset
                   = v_aggr[<<VSid(i), h>>].bitset
       /\ \A i \in Iters, h \in Hashes :
             i > iteration => v_aggr[<<VSid(i), h>>] = EmptyEntry

\* Iteration 0 collected a Validation quorum for A; the Validation step of
\* iteration 1 is entered with empty tallies while the registry and the
\* aggregator still hold iteration 0's votes.
C30_Witness ==
    /\ pc = "running" /\ iteration = 1 /\ step = "Validation"
    /\ stage = "entry"
    /\ v_curr_step = CurSid
    /\ v_aggr[<<VSid(0), "A">>].power >= Threshold(VSid(0))
    /\ reg[<<0, "A">>].quorum_reached_validation
    /\ \A h \in Hashes : v_aggr[<<CurSid, h>>] = EmptyEntry

\* The position (round, iteration, step-ordinal) as one number: positions
\* are ordered lexicographically exactly as these numbers are ordered.
Position(round, it, name) == (round * (MaxIter + 1) + it) * 3 + StepOrd[name]
MsgStatus(msg) == compare(msg, CurRound, iteration, step)
\* The same message with another previous-block hash, signer and signature.
Resigned(msg, tip, pk, sig) ==
    [msg EXCEPT !.prev_block_hash = tip, !.signer = pk, !.sig = sig]

\* C31 as stated: is_valid answers PastEvent for every Past message.  A Past
\* message without a signer is answered InvalidMsgType instead.
C31_EveryPastIsPastEvent ==
    pc = "running"
    => \A msg \in InboundMsgs :
          MsgStatus(msg) = "Past" => IsValidNow(msg) = "PastEvent"

\* C31: the status of a message is the lexicographic comparison of its
\* (round, iteration, step-ordinal) with the context's: Past if smaller,
\* Present if equal, Future if greater, so exactly one applies; and is_valid
\* answers PastEvent for every Past message that carries a signer, whatever
\* its previous-block hash, whoever signed it and whether or not the
\* signature verifies.
C31_StatusLexicographicPastUnchecked ==
    pc = "running"
    => LET c == Position(CurRound, iteration, step)
       IN /\ \A msg \in InboundMsgs :
                LET m == Position(msg.round, msg.iteration, msg.step)
                    status == MsgStatus(msg)
                IN /\ status \in {"Past", "Present", "Future"}
                   /\ status = "Past" <=> m < c
                   /\ status = "Present" <=> m = c
                   /\ status = "Future" <=> m > c
                   /\ (status = "Past" /\ msg.signer # "none")
                      => IsValidNow(msg) = "PastEvent"
          /\ \A msg \in VoteMsgs :
                MsgStatus(msg) = "Past"
                => /\ IsValidNow(Resigned(msg, "fork", msg.signer, TRUE))
                         = "PastEvent"
                   /\ IsValidNow(Resigned(msg, TipHash, "c", TRUE))
                         = "PastEvent"
                   /\ IsValidNow(Resigned(msg, TipHash, msg.signer, FALSE))
                         = "PastEvent"
                   /\ IsValidNow(Resigned(msg, "fork", "c", FALSE))
                         = "PastEvent"

\* During Ratification a Validation message was answered PastEvent, and so
\* are the Validation votes on a fork, with a bad signature and of a
\* non-member.
C31_Witness ==
    /\ pc = "running" /\ step = "Ratification" /\ stage = "loop"
    /\ log # <<>> /\ log[1] = "PastEvent"
    /\ \A msg \in OddMsgs :
          (msg.round = CurRound /\ msg.signer # "none")
          => IsValidNow(msg) = "PastEvent"
    /\ \E msg \in OddMsgs : msg.round = CurRound /\ msg.signer = "c"
    /\ \E msg \in OddMsgs : msg.round = CurRound /\ ~msg.sig

\* The errors is_valid gives a Present message, other than PastEvent and
\* FutureEvent.
Rejections ==
    {"InvalidMsgType", "InvalidPrevBlockHash", "NotCommitteeMember",
     "InvalidSignature"}
\* The Present messages of the current context with every combination of
\* signer (none, a non-member, the members), previous-block hash and
\* signature.
PresentMsgs ==
    {Resigned(msg, tip, pk, sig) :
        msg \in {m \in InboundMsgs : MsgStatus(m) = "Present"},
        tip \in {TipHash, "fork"}, pk \in {"none", "a", "b", "c"},
        sig \in BOOLEAN}

\* C32: for a Present message is_valid reports the first check that fails,
\* in this order: no signer (InvalidMsgType), another previous-block hash
\* than the round's (InvalidPrevBlockHash, also for a non-member), a signer
\* outside the current committee (NotCommitteeMember), and then whatever the
\* phase's verify answers.  The run of process_inbound_msg on a message
\* rejected this way ends there: nothing is published, collected or parked
\* and the loop goes on.
C32_PresentChecksInOrder ==
    (pc = "running" /\ stage = "loop")
    => \A msg \in PresentMsgs, arm \in Arms :
          LET ret == IsValidNow(msg)
              r == process_inbound_msg(St, iteration, step, committees,
                                       msg, TRUE, arm)
          IN /\ ret = IF msg.signer = "none" THEN "InvalidMsgType"
                      ELSE IF msg.prev_block_hash # TipHash
                      THEN "InvalidPrevBlockHash"
                      ELSE IF ~is_member(CurCommittee, msg.signer)
                      THEN "NotCommitteeMember"
                      ELSE verify(step, msg)
             /\ ret \in Rejections \cup {"Ok"}
             /\ ret \in Rejections => (~r.some /\ r.st = Log(St, ret))

\* The Validation step rejected a message for its previous-block hash: the
\* run made no other call, nothing is tallied or parked, and the same vote
\* signed by a non-member on the fork gets the same answer.
C32_Witness ==
    /\ pc = "running" /\ step = "Validation" /\ stage = "loop"
    /\ log = <<"InvalidPrevBlockHash">>
    /\ v_aggr = EmptyAggr /\ future_msgs = EmptyQueue
    /\ \E msg \in PresentMsgs :
          /\ msg.signer = "c" /\ msg.prev_block_hash = "fork"
          /\ IsValidNow(msg) = "InvalidPrevBlockHash"

\* The messages of the current round that are Future in the current context,
\* with every combination of signer, previous-block hash and signature, and
\* with their own payload, an Empty one or a Quorum.
FutureMsgs ==
    {[Resigned(msg, tip, pk, sig) EXCEPT !.topic = tp] :
        msg \in {m \in InboundMsgs :
                    m.round = CurRound /\ MsgStatus(m) = "Future"},
        tip \in {TipHash, "fork"}, pk \in {"none", "a", "b", "c"},
        sig \in BOOLEAN, tp \in {"Validation", "Empty", "Quorum"}}
\* The committee of the message's step is in the round's cache.
Cached(msg) == get_step(msg) \in DOMAIN committees
\* What the run of process_inbound_msg on a parked message leaves behind.
Parked(msg) ==
    Log([Log(St, "FutureEvent") EXCEPT !.future_msgs =
             put_event(@, msg.round, get_step(msg), msg)], "put_event")
\* The checks of a future message fail: its previous-block hash, or, when
\* the committee of its step is cached, its signer's membership, its
\* signature, or its payload being Empty.
FailsPreVerification(msg) ==
    \/ msg.prev_block_hash # TipHash
    \/ /\ Cached(msg)
       /\ \/ ~is_member(get_committee(committees, get_step(msg)), msg.signer)
          \/ msg.topic = "Validation" /\ ~msg.sig
          \/ msg.topic = "Empty"

\* C33 as stated, last sentence: a future message whose committee is not yet
\* cached is parked once its previous-block hash matches.  One that carries
\* no signer is answered InvalidMsgType and dropped.
C33_UncachedParkedOnTipAlone ==
    (pc = "running" /\ stage = "loop")
    => \A msg \in FutureMsgs :
          (~Cached(msg) /\ msg.prev_block_hash = TipHash)
          => IsValidNow(msg) = "FutureEvent"

\* C33: for a Future message of the current round, is_valid answers
\* FutureEvent only if the previous-block hash is the round's and, when the
\* committee of the message's step is cached, the signer is one of its
\* members and the stateless check of the payload passes; a message that
\* fails one of these, or carries an Empty payload, is answered an error and
\* dropped without being parked.  When the committee is not cached, a
\* message that carries a signer is parked after the previous-block hash
\* check alone.
C33_FuturePreVerified ==
    (pc = "running" /\ stage = "loop")
    => \A msg \in FutureMsgs, arm \in Arms :
          LET ret == IsValidNow(msg)
              r == process_inbound_msg(St, iteration, step, committees,
                                       msg, TRUE, arm)
          IN /\ ret = "FutureEvent"
                => (~FailsPreVerification(msg) /\ ~r.some
                    /\ r.st = Parked(msg))
             /\ FailsPreVerification(msg)
                => /\ ret \in Rejections
                   /\ ~r.some /\ r.st = Log(St, ret)
             /\ (~Cached(msg) /\ msg.prev_block_hash = TipHash
                 /\ msg.signer # "none")
                => ret = "FutureEvent"

\* During the Proposal step of iteration 0 a Validation vote of that
\* iteration with a bad signature was dropped and nothing is parked, while
\* the last iteration's committees are not cached yet and a vote of a
\* non-member for it would be parked.
C33_Witness ==
    /\ pc = "running" /\ iteration = 0 /\ step = "Proposal" /\ stage = "loop"
    /\ log = <<"InvalidSignature">>
    /\ future_msgs = EmptyQueue
    /\ \E msg \in FutureMsgs :
          /\ ~Cached(msg) /\ msg.signer = "c" /\ ~msg.sig
          /\ IsValidNow(msg) = "FutureEvent"

\* The messages of the next round, with every combination of signer,
\* previous-block hash, signature and payload.
NextRoundMsgs ==
    {[Resigned(msg, tip, pk, sig) EXCEPT !.topic = tp] :
        msg \in {m \in InboundMsgs : m.round > CurRound},
        tip \in {TipHash, "fork"}, pk \in {"none", "a", "b", "c"},
        sig \in BOOLEAN, tp \in {"Validation", "Empty", "Quorum"}}
NextRoundKeys == {k \in QueueKeys : k[1] > CurRound}

\* C40 as stated: every message of a later round is answered FutureEvent.
\* One that carries no signer is answered InvalidMsgType and dropped.
C40_EveryLaterRoundIsFutureEvent ==
    (pc = "running" /\ stage = "loop")
    => \A msg \in NextRoundMsgs : IsValidNow(msg) = "FutureEvent"

\* C40: a message of a later round that carries a signer is Future and
\* is_valid answers FutureEvent for it whatever its previous-block hash, its
\* signer and its payload; the run only appends it to the future queue under
\* (msg.round, msg.step-id), and during the current round what is queued
\* for the later round is never taken out again except by the cap of its
\* key: it is not drained, so not re-broadcast, collected or counted.
C40_LaterRoundOnlyParked ==
    /\ []((pc = "running" /\ stage = "loop")
           => \A msg \in NextRoundMsgs, arm \in Arms :
                   LET r == process_inbound_msg(St, iteration, step,
                                                committees, msg, TRUE, arm)
                   IN /\ MsgStatus(msg) = "Future"
                      /\ msg.signer # "none"
                         => /\ IsValidNow(msg) = "FutureEvent"
                            /\ ~r.some /\ r.st = Parked(msg))
    /\ [][\A k \in NextRoundKeys :
             \/ future_msgs'[k] = future_msgs[k]
             \/ /\ log' = <<"FutureEvent", "put_event">>
                /\ \E msg \in NextRoundMsgs :
                      /\ k = <<msg.round, get_step(msg)>>
                      /\ future_msgs' =
                            put_event(future_msgs, k[1], k[2], msg)]_vars

\* A Validation vote of the next round was parked and the round has reached
\* its last iteration: the vote is still queued, nothing is queued for the
\* current round, no vote has been tallied and no Quorum was sent.
C40_Witness ==
    /\ pc = "running" /\ stage = "loop" /\ iteration = MaxIter
    /\ future_msgs[<<CurRound + 1, VSid(0)>>] # <<>>
    /\ \A k \in QueueKeys : k[1] = CurRound => future_msgs[k] = <<>>
    /\ v_aggr = EmptyAggr /\ r_aggr = EmptyAggr
    /\ quorum_ch = <<>>

\* The answers of is_valid, the publications and the collect calls of a run,
\* each in the order of the run.
Answers(l) == SelectSeq(l, LAMBDA e : e \in IsValidResults)
Published(l) == SelectSeq(l, LAMBDA e : e \in {"send", "send_failed"})
Collected(l) == SelectSeq(l, LAMBDA e : e \in CollectCalls)
OkAnswers(l) == SelectSeq(l, LAMBDA e : e = "Ok")

\* C34: at the entry of a step handle_future_msgs takes every message stored
\* under (current round, current step-id) out of the queue and handles them
\* in stored order: each is re-validated, and only those answered Ok are
\* re-broadcast and collected; the first collect that returns Ready ends the
\* step.  Drained messages that fail the re-validation, and those behind
\* the one that ended the step, are discarded: none is parked again, handed
\* to past-event processing or collected, and the key is empty afterwards.
C34_DrainedOnceInOrder ==
    [][StepEntered
       => LET q == future_msgs[DrainedKey]
              answers == Answers(log')
              ended == stage' = "returned"
          IN /\ log'[1] = "drain_events"
             /\ future_msgs'[DrainedKey] = <<>>
             /\ \A k \in QueueKeys \ {DrainedKey} :
                   future_msgs'[k] = future_msgs[k]
             /\ Len(answers) <= Len(q)
             /\ \A n \in 1 .. Len(answers) : answers[n] = IsValidNow(q[n])
             /\ ~ended => Len(answers) = Len(q)
             /\ ended <=> log'[Len(log')] = "collect:Ready"
             /\ ended => answers[Len(answers)] = "Ok"
             /\ Len(Published(log')) = Len(OkAnswers(log'))
             /\ Len(Collected(log')) = Len(OkAnswers(log'))
             /\ \A n \in 1 .. Len(Collected(log')) :
                   Collected(log')[n] = "collect:Ready"
                   => n = Len(Collected(log'))
             /\ Len(log') = 1 + Len(answers) + 2 * Len(OkAnswers(log'))]_vars

\* At the entry of the Validation step a parked Quorum message failed the
\* re-validation and was discarded, and the vote parked behind it was
\* re-broadcast, collected and ended the step; the key is empty.
C34_Witness ==
    /\ pc = "running" /\ step = "Validation" /\ stage = "returned"
    /\ log = <<"drain_events", "InvalidMsgType", "Ok", "send",
               "collect:Ready">>
    /\ future_msgs[DrainedKey] = <<>>

\* C36: whenever handle_future_msgs or process_inbound_msg runs, that is at
\* the entry of every step and for as long as its loop waits, the committee
\* of the current step-id is in the committee map and is the one sortition
\* derives for it: the lookup of the current committee never comes back
\* empty, for the first message of a step and for steps entered after a
\* timeout as well.
C36_CurrentCommitteePresent ==
    (pc = "running" /\ stage \in {"entry", "loop"})
    => /\ CurSid \in DOMAIN committees
       /\ get_committee(committees, CurSid) = CurCommittee

\* The Validation step of the last iteration, entered after the Proposal
\* step timed out, handled its first message with its committee.
C36_Witness ==
    /\ pc = "running" /\ iteration = MaxIter /\ step = "Validation"
    /\ stage = "loop"
    /\ timeouts["Proposal"] > BaseTimeout["Proposal"]
    /\ log = <<"Ok", "send", "collect:Pending">>
    /\ get_committee(committees, CurSid) = wide_committee

\* The hashes whose Validation tally of iteration i has reached the quorum
\* threshold.
AtQuorum(i) ==
    {h \in Hashes : v_aggr[<<VSid(i), h>>].power >= Threshold(VSid(i))}
\* The power of the members that have a Validation vote of iteration i
\* tallied both for h1 and for h2.
SharedPower(i, h1, h2) ==
    PowerOf(VSid(i), v_aggr[<<VSid(i), h1>>].bitset
                        \cap v_aggr[<<VSid(i), h2>>].bitset)
\* The least power two tallies of iteration i at quorum have in common.
QuorumOverlap(i) ==
    2 * Threshold(VSid(i)) - total_power(sortition(VSid(i)))

\* C37 as stated: whatever votes the members of the committee send, at most
\* one hash reaches quorum in the aggregator of a step.  Signers are
\* deduplicated per (step-id, hash) only, so a member voting for two hashes
\* is tallied for both, and votes of a step keep being tallied after it
\* ended.
C37_AtMostOneHashAtQuorum ==
    \A i \in Iters : Cardinality(AtQuorum(i)) <= 1

\* C37: two hashes are both at quorum in the tallies of one Validation step
\* only when the members tallied for both hold at least 2 * threshold -
\* total power, which is more than a third of the committee's power; the
\* step still produces one result: ValidQuorum only for a non-zero hash
\* that is at quorum, NilQuorum only for the zero hash and with the zero
\* hash at quorum, NoQuorum only with no non-zero hash at quorum; once
\* produced, the result of the step stays what it is for the rest of the
\* round, so no step produces ValidQuorum for two hashes, or ValidQuorum
\* and NilQuorum.
C37_OneResultQuorumsOverlap ==
    /\ [](\A i \in Iters :
            LET q == AtQuorum(i)
            IN /\ 3 * QuorumOverlap(i) > total_power(sortition(VSid(i)))
               /\ \A h1 \in q : \A h2 \in q \ {h1} :
                     SharedPower(i, h1, h2) >= QuorumOverlap(i)
               /\ (pc = "running" /\ iteration = i /\ step = "Validation"
                   /\ stage = "returned")
                  => /\ step_out.quorum = "ValidQuorum"
                        => (step_out.hash # ZeroHash /\ step_out.hash \in q)
                     /\ step_out.quorum = "NilQuorum"
                        => (step_out.hash = ZeroHash /\ ZeroHash \in q)
                     /\ step_out.quorum = "NoQuorum" => q \ {ZeroHash} = {}
               /\ validation_result[i] = "ValidQuorum"
                  => q \ {ZeroHash} # {}
               /\ validation_result[i] = "NilQuorum" => ZeroHash \in q)
    /\ [][\A i \in Iters :
             (validation_result[i] # "Pending" /\ pc' # "cancelled")
             => validation_result'[i] = validation_result[i]]_vars

\* In iteration 0 the step ended with NilQuorum on a's vote for the zero
\* hash; a's vote for A of the same step was tallied afterwards: both hashes
\* are at quorum, a is tallied for both, and the result of the step is
\* still NilQuorum.
C37_Witness ==
    /\ validation_result[0] = "NilQuorum"
    /\ AtQuorum(0) = {ZeroHash, "A"}
    /\ SharedPower(0, ZeroHash, "A") >= QuorumOverlap(0)
    /\ "a" \in v_aggr[<<VSid(0), ZeroHash>>].bitset
                \cap v_aggr[<<VSid(0), "A">>].bitset

\* The committee of the Validation step of iteration 0, its total power and
\* its quorum threshold.
DrawnCommittee == get_committee(committees, VSid(0))
DrawnTotal == total_power(DrawnCommittee)
DrawnThreshold == quorum_threshold(DrawnCommittee)
\* Every member of the committee is in the tally of h.
AllVoted(h) == v_aggr[<<VSid(0), h>>].bitset = DOMAIN DrawnCommittee

\* C38 as stated: the quorum threshold of every committee is within its
\* total power.  For a total power of 1 or 2 it is 2 or 3.
C38_ThresholdWithinTotal ==
    DrawnThreshold <= DrawnTotal

\* C38: the quorum threshold is the ceiling of two thirds of the total power
\* plus one; it is within the total power exactly when the total power is
\* at least 3, and then the step ends with ValidQuorum on a non-zero hash
\* as soon as every member has voted for it, and a step that ends after
\* every member voted for the zero hash ends with NilQuorum on the zero
\* hash, unless the nil output was handed on as Pending and the step ended
\* later, with ValidQuorum on a non-zero hash or with NoQuorum at the
\* deadline; with a total power of 1 or 2 the threshold is above the total
\* power and no vote ends the step: it ends at the deadline with NoQuorum.
C38_ThresholdWithinTotalFromThree ==
    /\ 3 * (DrawnThreshold - 1) >= 2 * DrawnTotal
    /\ 3 * (DrawnThreshold - 2) < 2 * DrawnTotal
    /\ DrawnThreshold <= DrawnTotal <=> DrawnTotal >= 3
    /\ \A h \in Hashes :
          AllVoted(h)
          => /\ v_aggr[<<VSid(0), h>>].power = DrawnTotal
             /\ (DrawnTotal >= 3 /\ h # ZeroHash)
                => /\ stage = "returned" /\ step_out.hash = h
                   /\ step_out.quorum = "ValidQuorum"
             /\ (DrawnTotal >= 3 /\ h = ZeroHash /\ stage = "returned")
                => step_out.quorum
                      = IF log[Len(log)] = "handle_timeout" THEN "NoQuorum"
                        ELSE IF step_out.hash = ZeroHash THEN "NilQuorum"
                        ELSE "ValidQuorum"
    /\ (DrawnTotal < 3 /\ stage = "returned")
       => /\ log = <<"on_timeout_event", "handle_timeout">>
          /\ step_out = ValidationResult(DefaultSV, ZeroHash, "NoQuorum")

\* A committee of two members with a total power of 3: both voted for A
\* and the step ended with ValidQuorum.
C38_Witness ==
    /\ DOMAIN DrawnCommittee = Signers /\ DrawnTotal = 3
    /\ AllVoted("A")
    /\ stage = "returned" /\ step_out.quorum = "ValidQuorum"

\* C39: while a Validation step runs, the registry holds no Ratification
\* entry for the step's iteration, so for every vote the step's collect
\* would tally, add_step_votes records the StepVotes and returns no Quorum
\* message: the value collect discards is always None, and no run of the
\* step that collects a vote marks a certificate as returned.
C39_NoQuorumFromPresentValidation ==
    /\ []((pc = "running" /\ step = "Validation"
           /\ stage \in {"entry", "loop"})
          => /\ \A h \in Hashes : ~reg[<<iteration, h>>].has_ratification
             /\ \A msg \in VoteMsgs :
                   LET v == collect_vote(v_aggr, CurCommittee, msg)
                   IN (IsValidNow(msg) = "Ok" /\ v.some)
                      => ~add_step_votes(reg, CurSid, v.hash, v.sv,
                                         "Validation", v.quorum_reached).some)
    /\ [][(pc = "running" /\ step = "Validation" /\ pc' = "running"
           /\ step' = "Validation"
           /\ \E n \in 1 .. Len(log') : log'[n] \in CollectCalls)
          => \A k \in RegKeys : reg'[k].returned = reg[k].returned]_vars

\* The Validation step of the last iteration tallied a vote for A while the
\* registry holds the Ratification votes for A of iteration 0 and none of
\* the last iteration.
C39_Witness ==
    /\ pc = "running" /\ iteration = MaxIter /\ MaxIter > 0
    /\ step = "Validation" /\ stage = "loop"
    /\ log = <<"Ok", "send", "collect:Pending">>
    /\ reg[<<MaxIter, "A">>].has_validation
    /\ ~reg[<<MaxIter, "A">>].has_ratification
    /\ reg[<<0, "A">>].has_ratification

\* The hashes at quorum in the Reduction handler's tallies, and the
\* StepVotes of the tally of h.
ReductionAtQuorum ==
    {h \in Hashes :
        reduction.aggr[<<VSid(0), h>>].power >= quorum_threshold(DrawnCommittee)}
ReductionStepVotes(h) ==
    [bitset |-> reduction.aggr[<<VSid(0), h>>].bitset,
     signature |-> reduction.aggr[<<VSid(0), h>>].signature]

\* C35: a final result of the first-step handler that carries StepVotes
\* other than the default ones carries the StepVotes of a non-zero hash at
\* quorum and the block of that hash: the locally held candidate when its
\* hash is that hash, otherwise the block the database returned for it.  A
\* final result with default StepVotes carries the locally held candidate
\* when it is the answer to a timeout, and the default block when the votes
\* converged on the zero hash or the database had no block for the hash at
\* quorum.
C35_ResultCarriesQuorumBlock ==
    reduction_out.kind = "FinalResult"
    => IF reduction_out.sv # DefaultSV
       THEN \E h \in ReductionAtQuorum \ {ZeroHash} :
               /\ log = <<"collect">>
               /\ reduction_out.sv = ReductionStepVotes(h)
               /\ reduction_out.candidate.hash = h
               /\ reduction_out.candidate =
                     IF reduction.candidate.hash = h THEN reduction.candidate
                     ELSE Block(h, "db")
               /\ reduction.candidate.hash # h => h \in db
       ELSE IF log = <<"handle_timeout">>
       THEN reduction_out.candidate = reduction.candidate
       ELSE /\ reduction_out.candidate = DefaultBlock
            /\ \/ ZeroHash \in ReductionAtQuorum
               \/ \E h \in ReductionAtQuorum :
                     h # reduction.candidate.hash /\ h \notin db

\* The node holds a candidate with another hash than A; the votes reached
\* quorum on A and the result carries their StepVotes with the block of A
\* from the database.
C35_Witness ==
    /\ reduction_out.kind = "FinalResult"
    /\ reduction.candidate = Block(OtherHash, "local")
    /\ "A" \in ReductionAtQuorum
    /\ reduction_out.sv = ReductionStepVotes("A")
    /\ reduction_out.candidate = Block("A", "db")

====
